---- MODULE Spec2Model ----
(***************************************************************************)
(* A model of the order-book data hooks (packages/web/hooks/limit-orders/  *)
(* use-orderbook.ts) and of the string helpers (packages/utils/src/        *)
(* string.ts).                                                             *)
(*                                                                         *)
(* The strings of the string helpers are sequences of UTF-16 code units.   *)
(* A value that may be undefined is a record with a field "tag".  A hook   *)
(* is an operator from the results of the queries it reads to the record   *)
(* it returns; what the query library and the wallet do is the             *)
(* environment, one action each.                                           *)
(***************************************************************************)
EXTENDS Integers, Sequences, FiniteSets, TLC

VARIABLES
  \* ---- string helpers ----
  strFn,        \* the helper under evaluation
  strIn,        \* the argument of the latest call
  strMax,       \* ellipsisText's maxLength
  strOut,       \* the result of the latest call
  strCalls,     \* how many times the helper has been applied
  \* ---- what the hooks read ----
  sqsActiveOrders,  \* useFeatureFlags().sqsActiveOrders
  userAddress,      \* the hooks' userAddress argument
  disabled,         \* the claimable-order hooks' disabled argument
  pools,            \* api.edge.orderbooks.getPools: [data, isLoading]
  sqsOrders,        \* api.local.orderbooks.getAllOrdersSQS (useOrdersQuery): [data, fetch]
  nodeOrders,       \* api.edge.orderbooks.getAllOrders: [data, fetch]
  sqsClaimable,     \* api.local.orderbooks.getAllOrdersSQS, filter "filled": [data, fetch]
  nodeClaimable,    \* api.edge.orderbooks.getClaimableOrders: [data, fetch]
  \* ---- useOrderbookOrders ----
  refetchOrders,    \* the refetchOrders callback of the latest render: what it captured
  fetchNextPage,    \* the fetchNextPage that the latest render of useOrderbookOrders returned
  fetchNextPageCalls, \* how many times the caller has called a fetchNextPage
  refetchLog,       \* one entry per call of a refetchOrders callback
  \* ---- useOrderbookClaimableOrders ----
  account,          \* accountStore.getWallet(accountStore.osmosisChainId)
  walletTxs,        \* how many times sendMultiExecuteContractMsg has been called
  orderbookClaimableOrders,  \* what the latest render of useOrderbookClaimableOrders returned
  claimCall,        \* the latest call of claimAllOrders: what it read and what it sent
  \* ---- useOrderbook ----
  baseAsset,        \* useSwapAsset({ minDenomOrSymbol: baseDenom }).asset
  quoteAsset,       \* useSwapAsset({ minDenomOrSymbol: quoteDenom }).asset
  makerFeeQueries,  \* api.edge.orderbooks.getMakerFee, by osmoAddress: [data, isLoading, error]
  makerFeeRequests, \* the getMakerFee requests issued: [osmoAddress, matched]
  \* ---- useOrderbookSelectableDenoms ----
  userAssetPages,   \* api.edge.assets.getUserAssets: the data of the infinite query
  selectableDenoms, \* what the latest render of useOrderbookSelectableDenoms returned
  selectableDenomsRead \* the query results that render read: [getPools, selectableAssetPages]

strVars == <<strFn, strIn, strMax, strOut, strCalls>>
envVars == <<sqsActiveOrders, userAddress, disabled, pools>>
queryVars == <<sqsOrders, nodeOrders, sqsClaimable, nodeClaimable>>
ordersVars == <<refetchOrders, fetchNextPage, fetchNextPageCalls, refetchLog>>
claimVars == <<account, walletTxs, orderbookClaimableOrders, claimCall>>
orderbookVars == <<baseAsset, quoteAsset, makerFeeQueries, makerFeeRequests>>
denomVars == <<userAssetPages, selectableDenoms, selectableDenomsRead>>

vars == <<strVars, envVars, queryVars, ordersVars, claimVars, orderbookVars, denomVars>>

\* what an action on one group of variables leaves alone
StrOnly == UNCHANGED <<envVars, queryVars, ordersVars, claimVars, orderbookVars, denomVars>>
HooksOnly == UNCHANGED <<strVars, claimVars, orderbookVars, denomVars>>
ClaimOnly == UNCHANGED <<strVars, ordersVars, orderbookVars, denomVars>>
OrderbookOnly == UNCHANGED <<strVars, queryVars, ordersVars, claimVars, denomVars>>
DenomsOnly == UNCHANGED <<strVars, queryVars, ordersVars, claimVars, orderbookVars>>

-----------------------------------------------------------------------------
(* Bounds *)

MaxStrLen == 4
MaxTokens == 3
MaxRefetchCalls == 2
MaxFetchNextPageCalls == 1
MaxOrders == 2
MaxWalletTxs == 2
MaxOrderbooks == 3

-----------------------------------------------------------------------------
(* Generic sequence helpers *)

RECURSIVE SeqsUpTo(_, _)
SeqsUpTo(S, n) ==
  IF n = 0 THEN {<<>>}
  ELSE LET shorter == SeqsUpTo(S, n - 1)
       IN shorter \cup {Append(s, c) : s \in {t \in shorter : Len(t) = n - 1}, c \in S}

RECURSIVE Flatten(_)
Flatten(ss) == IF ss = <<>> THEN <<>> ELSE Head(ss) \o Flatten(Tail(ss))

IsPrefix(p, s) == Len(p) <= Len(s) /\ SubSeq(s, 1, Len(p)) = p

IsSuffix(p, s) == Len(p) <= Len(s) /\ SubSeq(s, Len(s) - Len(p) + 1, Len(s)) = p

-----------------------------------------------------------------------------
(* packages/utils/src/string.ts *)

\* A string is the sequence of its UTF-16 code units, written as numbers, as JavaScript
\* holds it: length, slice and the regular expressions (none has the u flag) count
\* and match code units.
Hyphen == 45        \* "-"
Dot == 46           \* "."
Slash == 47         \* "/"
Underscore == 95    \* "_"

\* [a-z] and [A-Z] of the regular expressions
IsLower(c) == c \in 97..122
IsUpper(c) == c \in 65..90

\* the code units String.prototype.trim removes, WhiteSpace and LineTerminator: tab,
\* line feed, vertical tab, form feed, carriage return, space, U+00A0, U+1680,
\* U+2000 to U+200A, U+2028, U+2029, U+202F, U+205F, U+3000 and U+FEFF
WhiteSpaceChars ==
  {9, 10, 11, 12, 13, 32, 160, 5760} \cup (8192..8202)
    \cup {8232, 8233, 8239, 8287, 12288, 65279}
IsSpace(c) == c \in WhiteSpaceChars

\* String.prototype.toLowerCase works on code points: a leading surrogate followed by
\* (U+D800 to U+DBFF) followed by a trailing one (U+DC00 to U+DFFF) is one code point,
\* any other code unit is a code point of its own
RECURSIVE StringToCodePoints(_)
StringToCodePoints(s) ==
  IF s = <<>> THEN <<>>
  ELSE IF Len(s) >= 2 /\ s[1] \in 55296..56319 /\ s[2] \in 56320..57343
       THEN <<65536 + (s[1] - 55296) * 1024 + (s[2] - 56320)>>
              \o StringToCodePoints(SubSeq(s, 3, Len(s)))
       ELSE <<s[1]>> \o StringToCodePoints(Tail(s))

RECURSIVE CodePointsToString(_)
CodePointsToString(cps) ==
  IF cps = <<>> THEN <<>>
  ELSE IF Head(cps) >= 65536
       THEN <<55296 + ((Head(cps) - 65536) \div 1024), 56320 + ((Head(cps) - 65536) % 1024)>>
              \o CodePointsToString(Tail(cps))
       ELSE <<Head(cps)>> \o CodePointsToString(Tail(cps))

\* The lower-case mappings of the Unicode Character Database (version 17.0):
\* <<first, last, step, delta>> maps each of first, first + step, ..., last to itself
\* plus delta. U+0130 and U+03A3 are not in this table (see CodePointToLowerCase).
LowerCaseMappings ==
  {<<65, 90, 1, 32>>, <<192, 214, 1, 32>>, <<216, 222, 1, 32>>, <<256, 302, 2, 1>>,
   <<306, 310, 2, 1>>, <<313, 327, 2, 1>>, <<330, 374, 2, 1>>, <<376, 376, 1, -121>>,
   <<377, 381, 2, 1>>, <<385, 385, 1, 210>>, <<386, 388, 2, 1>>, <<390, 390, 1, 206>>,
   <<391, 391, 1, 1>>, <<393, 394, 1, 205>>, <<395, 395, 1, 1>>, <<398, 398, 1, 79>>,
   <<399, 399, 1, 202>>, <<400, 400, 1, 203>>, <<401, 401, 1, 1>>, <<403, 403, 1, 205>>,
   <<404, 404, 1, 207>>, <<406, 406, 1, 211>>, <<407, 407, 1, 209>>, <<408, 408, 1, 1>>,
   <<412, 412, 1, 211>>, <<413, 413, 1, 213>>, <<415, 415, 1, 214>>, <<416, 420, 2, 1>>,
   <<422, 422, 1, 218>>, <<423, 423, 1, 1>>, <<425, 425, 1, 218>>, <<428, 428, 1, 1>>,
   <<430, 430, 1, 218>>, <<431, 431, 1, 1>>, <<433, 434, 1, 217>>, <<435, 437, 2, 1>>,
   <<439, 439, 1, 219>>, <<440, 440, 1, 1>>, <<444, 444, 1, 1>>, <<452, 452, 1, 2>>,
   <<453, 453, 1, 1>>, <<455, 455, 1, 2>>, <<456, 456, 1, 1>>, <<458, 458, 1, 2>>,
   <<459, 475, 2, 1>>, <<478, 494, 2, 1>>, <<497, 497, 1, 2>>, <<498, 500, 2, 1>>,
   <<502, 502, 1, -97>>, <<503, 503, 1, -56>>, <<504, 542, 2, 1>>,
   <<544, 544, 1, -130>>, <<546, 562, 2, 1>>, <<570, 570, 1, 10795>>,
   <<571, 571, 1, 1>>, <<573, 573, 1, -163>>, <<574, 574, 1, 10792>>,
   <<577, 577, 1, 1>>, <<579, 579, 1, -195>>, <<580, 580, 1, 69>>, <<581, 581, 1, 71>>,
   <<582, 590, 2, 1>>, <<880, 882, 2, 1>>, <<886, 886, 1, 1>>, <<895, 895, 1, 116>>,
   <<902, 902, 1, 38>>, <<904, 906, 1, 37>>, <<908, 908, 1, 64>>, <<910, 911, 1, 63>>,
   <<913, 929, 1, 32>>, <<932, 939, 1, 32>>, <<975, 975, 1, 8>>, <<984, 1006, 2, 1>>,
   <<1012, 1012, 1, -60>>, <<1015, 1015, 1, 1>>, <<1017, 1017, 1, -7>>,
   <<1018, 1018, 1, 1>>, <<1021, 1023, 1, -130>>, <<1024, 1039, 1, 80>>,
   <<1040, 1071, 1, 32>>, <<1120, 1152, 2, 1>>, <<1162, 1214, 2, 1>>,
   <<1216, 1216, 1, 15>>, <<1217, 1229, 2, 1>>, <<1232, 1326, 2, 1>>,
   <<1329, 1366, 1, 48>>, <<4256, 4293, 1, 7264>>, <<4295, 4295, 1, 7264>>,
   <<4301, 4301, 1, 7264>>, <<5024, 5103, 1, 38864>>, <<5104, 5109, 1, 8>>,
   <<7305, 7305, 1, 1>>, <<7312, 7354, 1, -3008>>, <<7357, 7359, 1, -3008>>,
   <<7680, 7828, 2, 1>>, <<7838, 7838, 1, -7615>>, <<7840, 7934, 2, 1>>,
   <<7944, 7951, 1, -8>>, <<7960, 7965, 1, -8>>, <<7976, 7983, 1, -8>>,
   <<7992, 7999, 1, -8>>, <<8008, 8013, 1, -8>>, <<8025, 8031, 2, -8>>,
   <<8040, 8047, 1, -8>>, <<8072, 8079, 1, -8>>, <<8088, 8095, 1, -8>>,
   <<8104, 8111, 1, -8>>, <<8120, 8121, 1, -8>>, <<8122, 8123, 1, -74>>,
   <<8124, 8124, 1, -9>>, <<8136, 8139, 1, -86>>, <<8140, 8140, 1, -9>>,
   <<8152, 8153, 1, -8>>, <<8154, 8155, 1, -100>>, <<8168, 8169, 1, -8>>,
   <<8170, 8171, 1, -112>>, <<8172, 8172, 1, -7>>, <<8184, 8185, 1, -128>>,
   <<8186, 8187, 1, -126>>, <<8188, 8188, 1, -9>>, <<8486, 8486, 1, -7517>>,
   <<8490, 8490, 1, -8383>>, <<8491, 8491, 1, -8262>>, <<8498, 8498, 1, 28>>,
   <<8544, 8559, 1, 16>>, <<8579, 8579, 1, 1>>, <<9398, 9423, 1, 26>>,
   <<11264, 11311, 1, 48>>, <<11360, 11360, 1, 1>>, <<11362, 11362, 1, -10743>>,
   <<11363, 11363, 1, -3814>>, <<11364, 11364, 1, -10727>>, <<11367, 11371, 2, 1>>,
   <<11373, 11373, 1, -10780>>, <<11374, 11374, 1, -10749>>,
   <<11375, 11375, 1, -10783>>, <<11376, 11376, 1, -10782>>, <<11378, 11378, 1, 1>>,
   <<11381, 11381, 1, 1>>, <<11390, 11391, 1, -10815>>, <<11392, 11490, 2, 1>>,
   <<11499, 11501, 2, 1>>, <<11506, 11506, 1, 1>>, <<42560, 42604, 2, 1>>,
   <<42624, 42650, 2, 1>>, <<42786, 42798, 2, 1>>, <<42802, 42862, 2, 1>>,
   <<42873, 42875, 2, 1>>, <<42877, 42877, 1, -35332>>, <<42878, 42886, 2, 1>>,
   <<42891, 42891, 1, 1>>, <<42893, 42893, 1, -42280>>, <<42896, 42898, 2, 1>>,
   <<42902, 42920, 2, 1>>, <<42922, 42922, 1, -42308>>, <<42923, 42923, 1, -42319>>,
   <<42924, 42924, 1, -42315>>, <<42925, 42925, 1, -42305>>,
   <<42926, 42926, 1, -42308>>, <<42928, 42928, 1, -42258>>,
   <<42929, 42929, 1, -42282>>, <<42930, 42930, 1, -42261>>, <<42931, 42931, 1, 928>>,
   <<42932, 42946, 2, 1>>, <<42948, 42948, 1, -48>>, <<42949, 42949, 1, -42307>>,
   <<42950, 42950, 1, -35384>>, <<42951, 42953, 2, 1>>, <<42955, 42955, 1, -42343>>,
   <<42956, 42970, 2, 1>>, <<42972, 42972, 1, -42561>>, <<42997, 42997, 1, 1>>,
   <<65313, 65338, 1, 32>>, <<66560, 66599, 1, 40>>, <<66736, 66771, 1, 40>>,
   <<66928, 66964, 2, 39>>, <<66929, 66937, 2, 39>>, <<66941, 66953, 2, 39>>,
   <<66957, 66961, 2, 39>>, <<66965, 66965, 1, 39>>, <<68736, 68786, 1, 64>>,
   <<68944, 68965, 1, 32>>, <<71840, 71871, 1, 32>>, <<93760, 93791, 1, 32>>,
   <<93856, 93880, 1, 27>>, <<125184, 125217, 1, 34>>}
\* the code points with the property Cased, as ranges <<first, last>>
CasedRanges ==
  {<<65, 90>>, <<97, 122>>, <<170, 170>>, <<181, 181>>, <<186, 186>>, <<192, 214>>,
   <<216, 246>>, <<248, 442>>, <<444, 447>>, <<452, 659>>, <<662, 696>>, <<704, 705>>,
   <<736, 740>>, <<837, 837>>, <<880, 883>>, <<886, 887>>, <<890, 893>>, <<895, 895>>,
   <<902, 902>>, <<904, 906>>, <<908, 908>>, <<910, 929>>, <<931, 1013>>,
   <<1015, 1153>>, <<1162, 1327>>, <<1329, 1366>>, <<1376, 1416>>, <<4256, 4293>>,
   <<4295, 4295>>, <<4301, 4301>>, <<4304, 4346>>, <<4348, 4351>>, <<5024, 5109>>,
   <<5112, 5117>>, <<7296, 7306>>, <<7312, 7354>>, <<7357, 7359>>, <<7424, 7615>>,
   <<7680, 7957>>, <<7960, 7965>>, <<7968, 8005>>, <<8008, 8013>>, <<8016, 8023>>,
   <<8025, 8025>>, <<8027, 8027>>, <<8029, 8029>>, <<8031, 8061>>, <<8064, 8116>>,
   <<8118, 8124>>, <<8126, 8126>>, <<8130, 8132>>, <<8134, 8140>>, <<8144, 8147>>,
   <<8150, 8155>>, <<8160, 8172>>, <<8178, 8180>>, <<8182, 8188>>, <<8305, 8305>>,
   <<8319, 8319>>, <<8336, 8348>>, <<8450, 8450>>, <<8455, 8455>>, <<8458, 8467>>,
   <<8469, 8469>>, <<8473, 8477>>, <<8484, 8484>>, <<8486, 8486>>, <<8488, 8488>>,
   <<8490, 8493>>, <<8495, 8500>>, <<8505, 8505>>, <<8508, 8511>>, <<8517, 8521>>,
   <<8526, 8526>>, <<8544, 8575>>, <<8579, 8580>>, <<9398, 9449>>, <<11264, 11492>>,
   <<11499, 11502>>, <<11506, 11507>>, <<11520, 11557>>, <<11559, 11559>>,
   <<11565, 11565>>, <<42560, 42605>>, <<42624, 42653>>, <<42786, 42887>>,
   <<42891, 42894>>, <<42896, 42972>>, <<42993, 42998>>, <<43000, 43002>>,
   <<43824, 43866>>, <<43868, 43881>>, <<43888, 43967>>, <<64256, 64262>>,
   <<64275, 64279>>, <<65313, 65338>>, <<65345, 65370>>, <<66560, 66639>>,
   <<66736, 66771>>, <<66776, 66811>>, <<66928, 66938>>, <<66940, 66954>>,
   <<66956, 66962>>, <<66964, 66965>>, <<66967, 66977>>, <<66979, 66993>>,
   <<66995, 67001>>, <<67003, 67004>>, <<67456, 67456>>, <<67459, 67461>>,
   <<67463, 67504>>, <<67506, 67514>>, <<68736, 68786>>, <<68800, 68850>>,
   <<68944, 68965>>, <<68976, 68997>>, <<71840, 71903>>, <<93760, 93823>>,
   <<93856, 93880>>, <<93883, 93907>>, <<119808, 119892>>, <<119894, 119964>>,
   <<119966, 119967>>, <<119970, 119970>>, <<119973, 119974>>, <<119977, 119980>>,
   <<119982, 119993>>, <<119995, 119995>>, <<119997, 120003>>, <<120005, 120069>>,
   <<120071, 120074>>, <<120077, 120084>>, <<120086, 120092>>, <<120094, 120121>>,
   <<120123, 120126>>, <<120128, 120132>>, <<120134, 120134>>, <<120138, 120144>>,
   <<120146, 120485>>, <<120488, 120512>>, <<120514, 120538>>, <<120540, 120570>>,
   <<120572, 120596>>, <<120598, 120628>>, <<120630, 120654>>, <<120656, 120686>>,
   <<120688, 120712>>, <<120714, 120744>>, <<120746, 120770>>, <<120772, 120779>>,
   <<122624, 122633>>, <<122635, 122654>>, <<122661, 122666>>, <<122928, 122989>>,
   <<125184, 125251>>, <<127280, 127305>>, <<127312, 127337>>, <<127344, 127369>>}
\* the code points with the property Case_Ignorable, as ranges <<first, last>>
CaseIgnorableRanges ==
  {<<39, 39>>, <<46, 46>>, <<58, 58>>, <<94, 94>>, <<96, 96>>, <<168, 168>>,
   <<173, 173>>, <<175, 175>>, <<180, 180>>, <<183, 184>>, <<688, 879>>, <<884, 885>>,
   <<890, 890>>, <<900, 901>>, <<903, 903>>, <<1155, 1161>>, <<1369, 1369>>,
   <<1375, 1375>>, <<1425, 1469>>, <<1471, 1471>>, <<1473, 1474>>, <<1476, 1477>>,
   <<1479, 1479>>, <<1524, 1524>>, <<1536, 1541>>, <<1552, 1562>>, <<1564, 1564>>,
   <<1600, 1600>>, <<1611, 1631>>, <<1648, 1648>>, <<1750, 1757>>, <<1759, 1768>>,
   <<1770, 1773>>, <<1807, 1807>>, <<1809, 1809>>, <<1840, 1866>>, <<1958, 1968>>,
   <<2027, 2037>>, <<2042, 2042>>, <<2045, 2045>>, <<2070, 2093>>, <<2137, 2139>>,
   <<2184, 2184>>, <<2192, 2193>>, <<2199, 2207>>, <<2249, 2306>>, <<2362, 2362>>,
   <<2364, 2364>>, <<2369, 2376>>, <<2381, 2381>>, <<2385, 2391>>, <<2402, 2403>>,
   <<2417, 2417>>, <<2433, 2433>>, <<2492, 2492>>, <<2497, 2500>>, <<2509, 2509>>,
   <<2530, 2531>>, <<2558, 2558>>, <<2561, 2562>>, <<2620, 2620>>, <<2625, 2626>>,
   <<2631, 2632>>, <<2635, 2637>>, <<2641, 2641>>, <<2672, 2673>>, <<2677, 2677>>,
   <<2689, 2690>>, <<2748, 2748>>, <<2753, 2757>>, <<2759, 2760>>, <<2765, 2765>>,
   <<2786, 2787>>, <<2810, 2815>>, <<2817, 2817>>, <<2876, 2876>>, <<2879, 2879>>,
   <<2881, 2884>>, <<2893, 2893>>, <<2901, 2902>>, <<2914, 2915>>, <<2946, 2946>>,
   <<3008, 3008>>, <<3021, 3021>>, <<3072, 3072>>, <<3076, 3076>>, <<3132, 3132>>,
   <<3134, 3136>>, <<3142, 3144>>, <<3146, 3149>>, <<3157, 3158>>, <<3170, 3171>>,
   <<3201, 3201>>, <<3260, 3260>>, <<3263, 3263>>, <<3270, 3270>>, <<3276, 3277>>,
   <<3298, 3299>>, <<3328, 3329>>, <<3387, 3388>>, <<3393, 3396>>, <<3405, 3405>>,
   <<3426, 3427>>, <<3457, 3457>>, <<3530, 3530>>, <<3538, 3540>>, <<3542, 3542>>,
   <<3633, 3633>>, <<3636, 3642>>, <<3654, 3662>>, <<3761, 3761>>, <<3764, 3772>>,
   <<3782, 3782>>, <<3784, 3790>>, <<3864, 3865>>, <<3893, 3893>>, <<3895, 3895>>,
   <<3897, 3897>>, <<3953, 3966>>, <<3968, 3972>>, <<3974, 3975>>, <<3981, 3991>>,
   <<3993, 4028>>, <<4038, 4038>>, <<4141, 4144>>, <<4146, 4151>>, <<4153, 4154>>,
   <<4157, 4158>>, <<4184, 4185>>, <<4190, 4192>>, <<4209, 4212>>, <<4226, 4226>>,
   <<4229, 4230>>, <<4237, 4237>>, <<4253, 4253>>, <<4348, 4348>>, <<4957, 4959>>,
   <<5906, 5908>>, <<5938, 5939>>, <<5970, 5971>>, <<6002, 6003>>, <<6068, 6069>>,
   <<6071, 6077>>, <<6086, 6086>>, <<6089, 6099>>, <<6103, 6103>>, <<6109, 6109>>,
   <<6155, 6159>>, <<6211, 6211>>, <<6277, 6278>>, <<6313, 6313>>, <<6432, 6434>>,
   <<6439, 6440>>, <<6450, 6450>>, <<6457, 6459>>, <<6679, 6680>>, <<6683, 6683>>,
   <<6742, 6742>>, <<6744, 6750>>, <<6752, 6752>>, <<6754, 6754>>, <<6757, 6764>>,
   <<6771, 6780>>, <<6783, 6783>>, <<6823, 6823>>, <<6832, 6877>>, <<6880, 6891>>,
   <<6912, 6915>>, <<6964, 6964>>, <<6966, 6970>>, <<6972, 6972>>, <<6978, 6978>>,
   <<7019, 7027>>, <<7040, 7041>>, <<7074, 7077>>, <<7080, 7081>>, <<7083, 7085>>,
   <<7142, 7142>>, <<7144, 7145>>, <<7149, 7149>>, <<7151, 7153>>, <<7212, 7219>>,
   <<7222, 7223>>, <<7288, 7293>>, <<7376, 7378>>, <<7380, 7392>>, <<7394, 7400>>,
   <<7405, 7405>>, <<7412, 7412>>, <<7416, 7417>>, <<7468, 7530>>, <<7544, 7544>>,
   <<7579, 7679>>, <<8125, 8125>>, <<8127, 8129>>, <<8141, 8143>>, <<8157, 8159>>,
   <<8173, 8175>>, <<8189, 8190>>, <<8203, 8207>>, <<8216, 8217>>, <<8228, 8228>>,
   <<8231, 8231>>, <<8234, 8238>>, <<8288, 8292>>, <<8294, 8303>>, <<8305, 8305>>,
   <<8319, 8319>>, <<8336, 8348>>, <<8400, 8432>>, <<11388, 11389>>, <<11503, 11505>>,
   <<11631, 11631>>, <<11647, 11647>>, <<11744, 11775>>, <<11823, 11823>>,
   <<12293, 12293>>, <<12330, 12333>>, <<12337, 12341>>, <<12347, 12347>>,
   <<12441, 12446>>, <<12540, 12542>>, <<40981, 40981>>, <<42232, 42237>>,
   <<42508, 42508>>, <<42607, 42610>>, <<42612, 42621>>, <<42623, 42623>>,
   <<42652, 42655>>, <<42736, 42737>>, <<42752, 42785>>, <<42864, 42864>>,
   <<42888, 42890>>, <<42993, 42996>>, <<43000, 43001>>, <<43010, 43010>>,
   <<43014, 43014>>, <<43019, 43019>>, <<43045, 43046>>, <<43052, 43052>>,
   <<43204, 43205>>, <<43232, 43249>>, <<43263, 43263>>, <<43302, 43309>>,
   <<43335, 43345>>, <<43392, 43394>>, <<43443, 43443>>, <<43446, 43449>>,
   <<43452, 43453>>, <<43471, 43471>>, <<43493, 43494>>, <<43561, 43566>>,
   <<43569, 43570>>, <<43573, 43574>>, <<43587, 43587>>, <<43596, 43596>>,
   <<43632, 43632>>, <<43644, 43644>>, <<43696, 43696>>, <<43698, 43700>>,
   <<43703, 43704>>, <<43710, 43711>>, <<43713, 43713>>, <<43741, 43741>>,
   <<43756, 43757>>, <<43763, 43764>>, <<43766, 43766>>, <<43867, 43871>>,
   <<43881, 43883>>, <<44005, 44005>>, <<44008, 44008>>, <<44013, 44013>>,
   <<64286, 64286>>, <<64434, 64450>>, <<65024, 65039>>, <<65043, 65043>>,
   <<65056, 65071>>, <<65106, 65106>>, <<65109, 65109>>, <<65279, 65279>>,
   <<65287, 65287>>, <<65294, 65294>>, <<65306, 65306>>, <<65342, 65342>>,
   <<65344, 65344>>, <<65392, 65392>>, <<65438, 65439>>, <<65507, 65507>>,
   <<65529, 65531>>, <<66045, 66045>>, <<66272, 66272>>, <<66422, 66426>>,
   <<67456, 67461>>, <<67463, 67504>>, <<67506, 67514>>, <<68097, 68099>>,
   <<68101, 68102>>, <<68108, 68111>>, <<68152, 68154>>, <<68159, 68159>>,
   <<68325, 68326>>, <<68900, 68903>>, <<68942, 68942>>, <<68969, 68973>>,
   <<68975, 68975>>, <<69291, 69292>>, <<69317, 69317>>, <<69370, 69375>>,
   <<69446, 69456>>, <<69506, 69509>>, <<69633, 69633>>, <<69688, 69702>>,
   <<69744, 69744>>, <<69747, 69748>>, <<69759, 69761>>, <<69811, 69814>>,
   <<69817, 69818>>, <<69821, 69821>>, <<69826, 69826>>, <<69837, 69837>>,
   <<69888, 69890>>, <<69927, 69931>>, <<69933, 69940>>, <<70003, 70003>>,
   <<70016, 70017>>, <<70070, 70078>>, <<70089, 70092>>, <<70095, 70095>>,
   <<70191, 70193>>, <<70196, 70196>>, <<70198, 70199>>, <<70206, 70206>>,
   <<70209, 70209>>, <<70367, 70367>>, <<70371, 70378>>, <<70400, 70401>>,
   <<70459, 70460>>, <<70464, 70464>>, <<70502, 70508>>, <<70512, 70516>>,
   <<70587, 70592>>, <<70606, 70606>>, <<70608, 70608>>, <<70610, 70610>>,
   <<70625, 70626>>, <<70712, 70719>>, <<70722, 70724>>, <<70726, 70726>>,
   <<70750, 70750>>, <<70835, 70840>>, <<70842, 70842>>, <<70847, 70848>>,
   <<70850, 70851>>, <<71090, 71093>>, <<71100, 71101>>, <<71103, 71104>>,
   <<71132, 71133>>, <<71219, 71226>>, <<71229, 71229>>, <<71231, 71232>>,
   <<71339, 71339>>, <<71341, 71341>>, <<71344, 71349>>, <<71351, 71351>>,
   <<71453, 71453>>, <<71455, 71455>>, <<71458, 71461>>, <<71463, 71467>>,
   <<71727, 71735>>, <<71737, 71738>>, <<71995, 71996>>, <<71998, 71998>>,
   <<72003, 72003>>, <<72148, 72151>>, <<72154, 72155>>, <<72160, 72160>>,
   <<72193, 72202>>, <<72243, 72248>>, <<72251, 72254>>, <<72263, 72263>>,
   <<72273, 72278>>, <<72281, 72283>>, <<72330, 72342>>, <<72344, 72345>>,
   <<72544, 72544>>, <<72546, 72548>>, <<72550, 72550>>, <<72752, 72758>>,
   <<72760, 72765>>, <<72767, 72767>>, <<72850, 72871>>, <<72874, 72880>>,
   <<72882, 72883>>, <<72885, 72886>>, <<73009, 73014>>, <<73018, 73018>>,
   <<73020, 73021>>, <<73023, 73029>>, <<73031, 73031>>, <<73104, 73105>>,
   <<73109, 73109>>, <<73111, 73111>>, <<73177, 73177>>, <<73459, 73460>>,
   <<73472, 73473>>, <<73526, 73530>>, <<73536, 73536>>, <<73538, 73538>>,
   <<73562, 73562>>, <<78896, 78912>>, <<78919, 78933>>, <<90398, 90409>>,
   <<90413, 90415>>, <<92912, 92916>>, <<92976, 92982>>, <<92992, 92995>>,
   <<93504, 93506>>, <<93547, 93548>>, <<94031, 94031>>, <<94095, 94111>>,
   <<94176, 94177>>, <<94179, 94180>>, <<94194, 94195>>, <<110576, 110579>>,
   <<110581, 110587>>, <<110589, 110590>>, <<113821, 113822>>, <<113824, 113827>>,
   <<118528, 118573>>, <<118576, 118598>>, <<119143, 119145>>, <<119155, 119170>>,
   <<119173, 119179>>, <<119210, 119213>>, <<119362, 119364>>, <<121344, 121398>>,
   <<121403, 121452>>, <<121461, 121461>>, <<121476, 121476>>, <<121499, 121503>>,
   <<121505, 121519>>, <<122880, 122886>>, <<122888, 122904>>, <<122907, 122913>>,
   <<122915, 122916>>, <<122918, 122922>>, <<122928, 122989>>, <<123023, 123023>>,
   <<123184, 123197>>, <<123566, 123566>>, <<123628, 123631>>, <<124139, 124143>>,
   <<124398, 124399>>, <<124643, 124643>>, <<124646, 124646>>, <<124654, 124655>>,
   <<124661, 124661>>, <<124671, 124671>>, <<125136, 125142>>, <<125252, 125259>>,
   <<127995, 127999>>, <<917505, 917505>>, <<917536, 917631>>, <<917760, 917999>>}
IsCased(cp) == \E r \in CasedRanges : r[1] <= cp /\ cp <= r[2]
IsCaseIgnorable(cp) == \E r \in CaseIgnorableRanges : r[1] <= cp /\ cp <= r[2]

\* Final_Sigma: the nearest code point before position i that is not Case_Ignorable is
\* Cased, and the nearest one after it that is not Case_Ignorable, if any, is not
Final_Sigma(cps, i) ==
  LET before == {j \in 1..(i - 1) : ~IsCaseIgnorable(cps[j])}
      after == {j \in (i + 1)..Len(cps) : ~IsCaseIgnorable(cps[j])}
  IN /\ before # {}
     /\ IsCased(cps[CHOOSE j \in before : \A k \in before : k <= j])
     /\ after # {} => ~IsCased(cps[CHOOSE j \in after : \A k \in after : j <= k])

\* the lower case of the code point at position i: capital sigma (U+03A3) becomes the
\* final sigma (U+03C2) in the context Final_Sigma and the small sigma (U+03C3)
\* elsewhere, U+0130 becomes "i" and U+0307, every other code point follows the table
CodePointToLowerCase(cps, i) ==
  LET cp == cps[i]
      mappings == {r \in LowerCaseMappings :
                     r[1] <= cp /\ cp <= r[2] /\ (cp - r[1]) % r[3] = 0}
  IN IF cp = 931 THEN (IF Final_Sigma(cps, i) THEN <<962>> ELSE <<963>>)
     ELSE IF cp = 304 THEN <<105, 775>>
     ELSE IF mappings # {} THEN <<cp + (CHOOSE r \in mappings : TRUE)[4]>>
     ELSE <<cp>>

\* String.prototype.toLowerCase
toLowerCase(s) ==
  LET cps == StringToCodePoints(s)
  IN CodePointsToString(Flatten([i \in 1..Len(cps) |-> CodePointToLowerCase(cps, i)]))

\* String.prototype.trim
RECURSIVE TrimStart(_)
TrimStart(s) ==
  IF s # <<>> /\ IsSpace(Head(s)) THEN TrimStart(Tail(s)) ELSE s

RECURSIVE TrimEnd(_)
TrimEnd(s) ==
  IF s # <<>> /\ IsSpace(s[Len(s)]) THEN TrimEnd(SubSeq(s, 1, Len(s) - 1)) ELSE s

trim(s) == TrimEnd(TrimStart(s))

\* String.prototype.slice(0, end): a negative end counts from the end of the string
SliceFromStart(s, end) ==
  LET e == IF end < 0 THEN (IF Len(s) + end < 0 THEN 0 ELSE Len(s) + end)
           ELSE (IF end > Len(s) THEN Len(s) ELSE end)
  IN SubSeq(s, 1, e)

Delimiter == <<Dot, Dot, Dot>>

ellipsisText(str, maxLength) ==
  IF str = <<>> THEN <<>>
  ELSE LET trimmedStr == trim(str)
       IN IF Len(str) > maxLength
          THEN SliceFromStart(trimmedStr, maxLength - 3) \o Delimiter
          ELSE trimmedStr

\* input.replace(/([a-z])([A-Z])/g, "$1_$2"): matches are found left to right and
\* do not overlap
RECURSIVE ReplaceLowerUpper(_)
ReplaceLowerUpper(s) ==
  IF Len(s) < 2 THEN s
  ELSE IF IsLower(s[1]) /\ IsUpper(s[2])
       THEN <<s[1], Underscore, s[2]>> \o ReplaceLowerUpper(SubSeq(s, 3, Len(s)))
       ELSE <<s[1]>> \o ReplaceLowerUpper(Tail(s))

camelCaseToSnakeCase(input) == toLowerCase(ReplaceLowerUpper(input))

\* str.replace(/[A-Z]/g, (letter) => `-${letter.toLowerCase()}`)
RECURSIVE ReplaceUpper(_)
ReplaceUpper(s) ==
  IF s = <<>> THEN <<>>
  ELSE IF IsUpper(Head(s))
       THEN <<Hyphen>> \o toLowerCase(<<Head(s)>>) \o ReplaceUpper(Tail(s))
       ELSE <<Head(s)>> \o ReplaceUpper(Tail(s))

\* .replace(/^-/, "")
StripLeadingHyphen(s) == IF s # <<>> /\ Head(s) = Hyphen THEN Tail(s) ELSE s

\* the replacement callback without its toLowerCase
RECURSIVE ReplaceUpperKeepCase(_)
ReplaceUpperKeepCase(s) ==
  IF s = <<>> THEN <<>>
  ELSE IF IsUpper(Head(s))
       THEN <<Hyphen, Head(s)>> \o ReplaceUpperKeepCase(Tail(s))
       ELSE <<Head(s)>> \o ReplaceUpperKeepCase(Tail(s))

camelToKebabCaseKeepCase(str) == StripLeadingHyphen(ReplaceUpperKeepCase(str))

camelToKebabCase(str) == StripLeadingHyphen(ReplaceUpper(str))

HttpScheme == <<104, 116, 116, 112, 58, Slash, Slash>>          \* "http://"
HttpsScheme == <<104, 116, 116, 112, 115, 58, Slash, Slash>>    \* "https://"
Www == <<119, 119, 119, Dot>>                                   \* "www."

\* url.replace(/^https?:\/\//, "")
StripScheme(url) ==
  IF IsPrefix(HttpsScheme, url) THEN SubSeq(url, Len(HttpsScheme) + 1, Len(url))
  ELSE IF IsPrefix(HttpScheme, url) THEN SubSeq(url, Len(HttpScheme) + 1, Len(url))
  ELSE url

\* url.replace(/^www\./, "")
StripWww(url) ==
  IF IsPrefix(Www, url) THEN SubSeq(url, Len(Www) + 1, Len(url)) ELSE url

\* url.replace(/\/$/, "")
StripTrailingSlash(url) ==
  IF url # <<>> /\ url[Len(url)] = Slash THEN SubSeq(url, 1, Len(url) - 1) ELSE url

normalizeUrl(url) == StripTrailingSlash(StripWww(StripScheme(url)))

-----------------------------------------------------------------------------
(* Values of the hooks *)

Undefined == [tag |-> "undefined"]
Array(items) == [tag |-> "array", items |-> items]
InfiniteData(pages) == [tag |-> "InfiniteData", pages |-> pages]

\* an order of the order-book contract, as the hooks read it
Order(orderbookAddress, tick_id, order_id) ==
  [orderbookAddress |-> orderbookAddress, tick_id |-> tick_id, order_id |-> order_id]

\* pages.flatMap((page) => page.items)
RECURSIVE FlatMapItems(_)
FlatMapItems(pages) ==
  IF pages = <<>> THEN <<>> ELSE Head(pages).items \o FlatMapItems(Tail(pages))

-----------------------------------------------------------------------------
(* use-orderbook.ts: useOrderbooks *)

\* the result of getPools while it loads, once it has loaded, and when it failed
PoolsLoading == [data |-> Undefined, isLoading |-> TRUE]
PoolsSuccess(orderbooks) == [data |-> Array(orderbooks), isLoading |-> FALSE]
PoolsError == [data |-> Undefined, isLoading |-> FALSE]

useOrderbooks(getPools) ==
  [orderbooks |-> IF getPools.data = Undefined THEN <<>> ELSE getPools.data.items,
   isLoading |-> getPools.isLoading]

\* const addresses = orderbooks.map(({ contractAddress }) => contractAddress)
Addresses(getPools) ==
  LET orderbooks == useOrderbooks(getPools).orderbooks
  IN [i \in 1..Len(orderbooks) |-> orderbooks[i].contractAddress]

-----------------------------------------------------------------------------
(* The query library: what useInfiniteQuery and useQuery return *)

\* a query is [data, fetch]: the data it holds and the request in flight, one of
\* "idle", "fetching" (the first fetch or a refetch) and "fetchingNextPage"
QueryIdle == [data |-> Undefined, fetch |-> "idle"]

\* the user addresses the hooks are rendered with; userOsmoAddress is part of the
\* input of each order query, so the library holds one query for each address
UserAddresses == {"", "osmo1"}
QueriesIdle == [a \in UserAddresses |-> QueryIdle]

\* getNextPageParam: (lastPage) => lastPage.nextCursor
HasNextPage(q) ==
  /\ q.data # Undefined
  /\ q.data.pages # <<>>
  /\ q.data.pages[Len(q.data.pages)].nextCursor # Undefined

\* the fields of a useInfiniteQuery result that the hooks read; name, the procedure
\* and the user address of the input, tells the fetchNextPage and refetch functions
\* of one query from those of another
InfiniteQueryResult(name, q) ==
  [data |-> q.data,
   isLoading |-> q.data = Undefined,
   fetchNextPage |-> <<name, "fetchNextPage">>,
   isFetching |-> q.fetch # "idle",
   isFetchingNextPage |-> q.fetch = "fetchingNextPage",
   hasNextPage |-> HasNextPage(q),
   refetch |-> <<name, "refetch">>,
   isRefetching |-> q.fetch = "fetching" /\ q.data # Undefined]

QueryResult(q) == [data |-> q.data, isLoading |-> q.data = Undefined]

-----------------------------------------------------------------------------
(* use-orderbook.ts: useOrdersQuery *)

\* enabled: !!userAddress && addresses.length > 0 && sqsActiveOrders
SQSOrdersEnabled(flag, user, addresses) ==
  user # "" /\ Len(addresses) > 0 /\ flag

\* enabled: !!userAddress && addresses.length > 0 && !sqsActiveOrders
NodeOrdersEnabled(flag, user, addresses) ==
  user # "" /\ Len(addresses) > 0 /\ ~flag

\* the returned record with refetch and isRefetching taken from the other result
useOrdersQueryResultCrossed(flag, sqs, node) ==
  [data |-> IF flag THEN sqs.data ELSE node.data,
   isLoading |-> IF flag THEN sqs.isLoading ELSE node.isLoading,
   fetchNextPage |-> IF flag THEN sqs.fetchNextPage ELSE node.fetchNextPage,
   isFetching |-> IF flag THEN sqs.isFetching ELSE node.isFetching,
   isFetchingNextPage |-> IF flag THEN sqs.isFetchingNextPage ELSE node.isFetchingNextPage,
   hasNextPage |-> IF flag THEN sqs.hasNextPage ELSE node.hasNextPage,
   refetch |-> IF flag THEN node.refetch ELSE sqs.refetch,
   isRefetching |-> IF flag THEN node.isRefetching ELSE sqs.isRefetching]

\* the returned record: each field from the SQS result or from the node result
useOrdersQueryResult(flag, sqs, node) ==
  [data |-> IF flag THEN sqs.data ELSE node.data,
   isLoading |-> IF flag THEN sqs.isLoading ELSE node.isLoading,
   fetchNextPage |-> IF flag THEN sqs.fetchNextPage ELSE node.fetchNextPage,
   isFetching |-> IF flag THEN sqs.isFetching ELSE node.isFetching,
   isFetchingNextPage |-> IF flag THEN sqs.isFetchingNextPage ELSE node.isFetchingNextPage,
   hasNextPage |-> IF flag THEN sqs.hasNextPage ELSE node.hasNextPage,
   refetch |-> IF flag THEN sqs.refetch ELSE node.refetch,
   isRefetching |-> IF flag THEN sqs.isRefetching ELSE node.isRefetching]

useOrdersQuery ==
  useOrdersQueryResult(sqsActiveOrders,
                       InfiniteQueryResult(<<"getAllOrdersSQS", userAddress>>,
                                           sqsOrders[userAddress]),
                       InfiniteQueryResult(<<"getAllOrders", userAddress>>,
                                           nodeOrders[userAddress]))

-----------------------------------------------------------------------------
(* use-orderbook.ts: useClaimableOrdersQuery *)

\* enabled: !!userAddress && addresses.length > 0 && !disabled && sqsActiveOrders
SQSClaimableEnabled(flag, user, addresses, isDisabled) ==
  user # "" /\ Len(addresses) > 0 /\ ~isDisabled /\ flag

\* enabled: !!userAddress && addresses.length > 0 && !disabled && !sqsActiveOrders
NodeClaimableEnabled(flag, user, addresses, isDisabled) ==
  user # "" /\ Len(addresses) > 0 /\ ~isDisabled /\ ~flag

\* const orders = useMemo(...)
ClaimableOrders(flag, claimableOrders, nodeClaimableOrders) ==
  IF ~flag THEN nodeClaimableOrders
  ELSE IF claimableOrders = Undefined THEN Array(<<>>)
       ELSE Array(FlatMapItems(claimableOrders.pages))

useClaimableOrdersQueryResult(flag, sqs, node) ==
  [data |-> ClaimableOrders(flag, sqs.data, node.data),
   isLoading |-> IF flag THEN sqs.isLoading ELSE node.isLoading]

useClaimableOrdersQuery ==
  useClaimableOrdersQueryResult(sqsActiveOrders,
                                InfiniteQueryResult(<<"getAllOrdersSQS.filled", userAddress>>,
                                                    sqsClaimable[userAddress]),
                                QueryResult(nodeClaimable[userAddress]))

-----------------------------------------------------------------------------
(* use-orderbook.ts: useOrderbookOrders *)

\* orders?.pages.flatMap((page) => page.items) ?? []
AllOrders(orders) ==
  IF orders = Undefined THEN <<>> ELSE FlatMapItems(orders.pages)

\* what a render of useOrderbookOrders returns; refetch is the refetchOrders
\* callback, which holds the refetch and the isRefetching of that render
useOrderbookOrders ==
  LET q == useOrdersQuery
  IN [orders |-> AllOrders(q.data),
      isLoading |-> q.isLoading,
      fetchNextPage |-> q.fetchNextPage,
      isFetching |-> q.isFetching,
      isFetchingNextPage |-> q.isFetchingNextPage,
      hasNextPage |-> q.hasNextPage,
      refetch |-> [refetch |-> q.refetch, isRefetching |-> q.isRefetching],
      isRefetching |-> q.isRefetching]

-----------------------------------------------------------------------------
(* use-orderbook.ts: useOrderbookClaimableOrders *)

Wallet == [tag |-> "wallet", address |-> "osmo1"]

\* orders.filter((o) => o.orderbookAddress === contractAddress)
OrdersForAddress(contractAddress, orders) ==
  SelectSeq(orders, LAMBDA o : o.orderbookAddress = contractAddress)

\* the callback of addresses.map with the pairs the other way round
ClaimMsgSwapped(contractAddress, orders) ==
  LET ordersForAddress == OrdersForAddress(contractAddress, orders)
  IN IF Len(ordersForAddress) = 0 THEN Undefined
     ELSE [contractAddress |-> contractAddress,
           msg |-> [batch_claim |-> [orders |->
                      [i \in 1..Len(ordersForAddress) |->
                         <<ordersForAddress[i].order_id, ordersForAddress[i].tick_id>>]]],
           funds |-> <<>>]

\* the callback of addresses.map: the batch_claim message for one contract, or
\* undefined when none of the orders is on it
ClaimMsg(contractAddress, orders) ==
  LET ordersForAddress == OrdersForAddress(contractAddress, orders)
  IN IF Len(ordersForAddress) = 0 THEN Undefined
     ELSE [contractAddress |-> contractAddress,
           msg |-> [batch_claim |-> [orders |->
                      [i \in 1..Len(ordersForAddress) |->
                         <<ordersForAddress[i].tick_id, ordersForAddress[i].order_id>>]]],
           funds |-> <<>>]

\* addresses.map(...).filter(Boolean)
ClaimMsgs(addresses, orders) ==
  SelectSeq([i \in 1..Len(addresses) |-> ClaimMsg(addresses[i], orders)],
            LAMBDA m : m # Undefined)

\* claimAllOrders without its test of msgs.length
claimAllOrdersAlwaysSends(wallet, orders, addresses) ==
  IF wallet = Undefined \/ orders = Undefined THEN <<>>
  ELSE <<ClaimMsgs(addresses, orders.items)>>

\* claimAllOrders: the batches it passes to sendMultiExecuteContractMsg, in order
claimAllOrders(wallet, orders, addresses) ==
  IF wallet = Undefined \/ orders = Undefined THEN <<>>
  ELSE LET msgs == ClaimMsgs(addresses, orders.items)
       IN IF Len(msgs) > 0 THEN <<msgs>> ELSE <<>>

\* what a render of useOrderbookClaimableOrders returns; claimAllOrders is the
\* callback, which holds the account, the orders and the addresses of that render
useOrderbookClaimableOrders ==
  LET q == useClaimableOrdersQuery
  IN [orders |-> IF q.data = Undefined THEN <<>> ELSE q.data.items,
      count |-> IF q.data = Undefined THEN 0 ELSE Len(q.data.items),
      isLoading |-> q.isLoading,
      claimAllOrders |-> [account |-> account, orders |-> q.data,
                          addresses |-> Addresses(pools)]]

-----------------------------------------------------------------------------
(* Assets and orderbooks *)

Orderbook(contractAddress, baseDenom, quoteDenom, poolId) ==
  [contractAddress |-> contractAddress, baseDenom |-> baseDenom,
   quoteDenom |-> quoteDenom, poolId |-> poolId]

OsmoUsdc == Orderbook("c1", "uosmo", "ibc/usdc", "7")
IonUsdc == Orderbook("c2", "uion", "ibc/usdc", "9")

-----------------------------------------------------------------------------
(* use-orderbook.ts: useMakerFee and useOrderbook *)

Null == [tag |-> "null"]
String(val) == [tag |-> "string", val |-> val]
Dec(n) == [dec |-> n]

\* an asset, as useSwapAsset returns it
Asset(coinDenom, coinMinimalDenom) ==
  [coinDenom |-> coinDenom, coinMinimalDenom |-> coinMinimalDenom]

\* a getMakerFee query before it has fetched, which is where a disabled one stays;
\* fetch tells whether a request is in flight
MakerFeeLoading == [data |-> Undefined, isLoading |-> TRUE, error |-> Null, fetch |-> "idle"]

\* enabled: !!orderbookAddress, always true
MakerFeeAlwaysEnabled(orderbookAddress) == TRUE

\* enabled: !!orderbookAddress
MakerFeeEnabled(orderbookAddress) == orderbookAddress # ""

\* const makerFee = useMemo(...): makerFeeData?.makerFee ?? new Dec(0) once loaded
MakerFee(isLoading, makerFeeData) ==
  IF isLoading THEN Dec(0)
  ELSE IF makerFeeData # Undefined /\ "makerFee" \in DOMAIN makerFeeData
       THEN makerFeeData.makerFee
       ELSE Dec(0)

\* useMakerFee, given the result of its getMakerFee query
useMakerFee(query) ==
  [makerFee |-> MakerFee(query.isLoading, query.data),
   isLoading |-> query.isLoading,
   error |-> query.error]

\* the predicate of orderbooks.find
MatchesPair(orderbook, base, quote) ==
  /\ base # Undefined
  /\ quote # Undefined
  /\ (orderbook.baseDenom = base.coinDenom \/ orderbook.baseDenom = base.coinMinimalDenom)
  /\ (orderbook.quoteDenom = quote.coinDenom \/ orderbook.quoteDenom = quote.coinMinimalDenom)

\* orderbooks.find(...): the first orderbook of the pair, or undefined
RECURSIVE FindOrderbook(_, _, _)
FindOrderbook(orderbooks, base, quote) ==
  IF orderbooks = <<>> THEN Undefined
  ELSE IF MatchesPair(Head(orderbooks), base, quote) THEN Head(orderbooks)
       ELSE FindOrderbook(Tail(orderbooks), base, quote)

\* !orderbook || !orderbook.poolId || orderbook.poolId === ""
NoPool(orderbook) ==
  \/ orderbook = Undefined
  \/ "poolId" \notin DOMAIN orderbook
  \/ orderbook.poolId = ""

\* const error = useMemo(...), without the test of isOrderbookLoading
OrderbookErrorWhileLoading(isOrderbookLoading, orderbook, makerFeeError) ==
  IF NoPool(orderbook) THEN String("errors.noOrderbook")
  ELSE IF makerFeeError # Null THEN String(makerFeeError.message)
       ELSE Undefined

\* const error = useMemo(...)
OrderbookError(isOrderbookLoading, orderbook, makerFeeError) ==
  IF ~isOrderbookLoading /\ NoPool(orderbook) THEN String("errors.noOrderbook")
  ELSE IF makerFeeError # Null THEN String(makerFeeError.message)
       ELSE Undefined

\* orderbook?.contractAddress ?? "", orderbook?.poolId ?? ""
ContractAddressOf(orderbook) ==
  IF orderbook = Undefined THEN "" ELSE orderbook.contractAddress

PoolIdOf(orderbook) ==
  IF orderbook = Undefined \/ "poolId" \notin DOMAIN orderbook THEN "" ELSE orderbook.poolId

\* what a render of useOrderbook returns
useOrderbook ==
  LET books == useOrderbooks(pools)
      orderbook == FindOrderbook(books.orderbooks, baseAsset, quoteAsset)
      fee == useMakerFee(makerFeeQueries[ContractAddressOf(orderbook)])
  IN [orderbook |-> orderbook,
      poolId |-> PoolIdOf(orderbook),
      contractAddress |-> ContractAddressOf(orderbook),
      makerFee |-> fee.makerFee,
      isMakerFeeLoading |-> fee.isLoading,
      isOrderbookLoading |-> books.isLoading,
      error |-> OrderbookError(books.isLoading, orderbook, fee.error)]

\* the orderbooks getPools may deliver to useOrderbook: one with a pool id, one named
\* by symbols with an empty pool id, one without a pool id
OsmoUsdcBySymbol == Orderbook("c3", "OSMO", "USDC", "")
IonUsdcNoPool == [contractAddress |-> "c2", baseDenom |-> "uion", quoteDenom |-> "ibc/usdc"]
OrderbookUniverse == {OsmoUsdc, OsmoUsdcBySymbol, IonUsdcNoPool}
OrderbookLists ==
  {<<>>} \cup {<<a>> : a \in OrderbookUniverse}
  \cup {l \in OrderbookUniverse \X OrderbookUniverse : l[1] # l[2]}

Osmo == Asset("OSMO", "uosmo")
Ion == Asset("ION", "uion")
Usdc == Asset("USDC", "ibc/usdc")

MakerFeeAddresses == {""} \cup {o.contractAddress : o \in OrderbookUniverse}

\* what a getMakerFee request may settle to
MakerFeeOutcomes ==
  {[data |-> [tag |-> "data", makerFee |-> Dec(2)], isLoading |-> FALSE, error |-> Null,
    fetch |-> "idle"],
   [data |-> [tag |-> "data"], isLoading |-> FALSE, error |-> Null, fetch |-> "idle"],
   [data |-> Undefined, isLoading |-> FALSE, error |-> [message |-> "Failed to fetch"],
    fetch |-> "idle"]}

OrderbookIdle ==
  /\ baseAsset = Undefined
  /\ quoteAsset = Undefined
  /\ makerFeeQueries = [a \in MakerFeeAddresses |-> MakerFeeLoading]
  /\ makerFeeRequests = {}

-----------------------------------------------------------------------------
(* use-orderbook.ts: useOrderbookSelectableDenoms *)

\* an asset of the user, with its balance
UserAsset(asset, amount) ==
  [coinDenom |-> asset.coinDenom, coinMinimalDenom |-> asset.coinMinimalDenom,
   amount |-> Dec(amount), usdValue |-> Dec(amount)]

\* ~/config/generated/asset-lists, the asset-list configuration the lookup reads. An
\* asset has a symbol (coinDenom) and a minimal denom; two assets of the list, the
\* native OSMO and an OSMO that arrived over IBC, carry the same symbol.
AssetLists == <<Osmo, Ion, Usdc, Asset("OSMO", "ibc/osmo")>>

\* getAssetFromAssetList({ coinMinimalDenom, assetLists }): the asset of the list
\* with that minimal denom, or undefined
getAssetFromAssetList(coinMinimalDenom, assetLists) ==
  IF \E i \in 1..Len(assetLists) : assetLists[i].coinMinimalDenom = coinMinimalDenom
  THEN assetLists[CHOOSE i \in 1..Len(assetLists) :
                    /\ assetLists[i].coinMinimalDenom = coinMinimalDenom
                    /\ \A j \in 1..(i - 1) : assetLists[j].coinMinimalDenom # coinMinimalDenom]
  ELSE Undefined

\* Array.from(new Set(xs)): each element once, where it first occurs
RECURSIVE Dedupe(_)
Dedupe(xs) ==
  IF xs = <<>> THEN <<>>
  ELSE LET init == Dedupe(SubSeq(xs, 1, Len(xs) - 1))
           last == xs[Len(xs)]
       IN IF \E i \in 1..Len(init) : init[i] = last THEN init ELSE Append(init, last)

\* orderbooks.map((orderbook) => orderbook.baseDenom), without duplicates
SelectableBaseDenoms(orderbooks) ==
  Dedupe([i \in 1..Len(orderbooks) |-> orderbooks[i].baseDenom])

\* selectableAssetPages?.pages.flatMap((page) => page.items) ?? []
SelectableAssets(selectableAssetPages) ==
  IF selectableAssetPages = Undefined THEN <<>>
  ELSE FlatMapItems(selectableAssetPages.pages)

\* selectableAssets.find((asset) => asset.coinMinimalDenom === denom)
RECURSIVE FindAsset(_, _)
FindAsset(selectableAssets, denom) ==
  IF selectableAssets = <<>> THEN Undefined
  ELSE IF Head(selectableAssets).coinMinimalDenom = denom THEN Head(selectableAssets)
       ELSE FindAsset(Tail(selectableAssets), denom)

\* the callback of selectableBaseDenoms.map
BaseAssetOf(denom, selectableAssets) ==
  LET existingAsset == FindAsset(selectableAssets, denom)
  IN IF existingAsset # Undefined THEN existingAsset
     ELSE getAssetFromAssetList(denom, AssetLists)

\* .filter(Boolean)
Defined(xs) == SelectSeq(xs, LAMBDA x : x # Undefined)

SelectableBaseAssets(selectableBaseDenoms, selectableAssets) ==
  Defined([i \in 1..Len(selectableBaseDenoms) |->
             BaseAssetOf(selectableBaseDenoms[i], selectableAssets)])

\* the callback of the map over the orderbooks of one base asset
QuoteAssetOf(orderbook, selectableAssets) ==
  LET existingAsset == FindAsset(selectableAssets, orderbook.quoteDenom)
      asset == getAssetFromAssetList(orderbook.quoteDenom, AssetLists)
  IN IF existingAsset # Undefined THEN existingAsset
     ELSE IF asset = Undefined THEN Undefined
     ELSE [coinDenom |-> asset.coinDenom, coinMinimalDenom |-> asset.coinMinimalDenom,
           amount |-> Undefined, usdValue |-> Undefined]

\* orderbooks.filter(baseDenom === asset.coinMinimalDenom).map(...).filter(Boolean)
QuoteAssetsOf(asset, orderbooks, selectableAssets) ==
  LET ofBase == SelectSeq(orderbooks, LAMBDA o : o.baseDenom = asset.coinMinimalDenom)
  IN Defined([i \in 1..Len(ofBase) |-> QuoteAssetOf(ofBase[i], selectableAssets)])

\* a?.amount?.toDec() ?? new Dec(0)
AmountOrZero(a) ==
  IF "amount" \in DOMAIN a /\ a.amount # Undefined THEN a.amount.dec ELSE 0

\* the comparator of the sort: 1 if a's amount is greater than b's, else -1
CompareAmounts(a, b) == IF AmountOrZero(a) > AmountOrZero(b) THEN 1 ELSE -1

IndexPermutations(n) == {p \in [1..n -> 1..n] : \A i, j \in 1..n : p[i] = p[j] => i = j}

\* Array.prototype.sort with that comparator: the elements in ascending order of
\* amount; the comparator never returns 0, so where amounts are equal the order is
\* the engine's
SortOutcomes(xs) ==
  {[i \in 1..Len(xs) |-> xs[p[i]]] :
     p \in {q \in IndexPermutations(Len(xs)) :
              \A i, j \in 1..Len(xs) :
                i < j => CompareAmounts(xs[q[i]], xs[q[j]]) < 0
                           \/ AmountOrZero(xs[q[i]]) = AmountOrZero(xs[q[j]])}}

\* quoteDenoms[asset.coinDenom] = ... on the object literal {}: the property is added,
\* or overwritten when the object already has it. The key "__proto__" is the accessor
\* the object inherits: assigning an array to it replaces the object's prototype and
\* adds no property. (A quoteDenoms value is the object's own properties.)
Assign(quoteDenoms, key, value) ==
  IF key = "__proto__" THEN quoteDenoms
  ELSE [k \in DOMAIN quoteDenoms \cup {key} |-> IF k = key THEN value ELSE quoteDenoms[k]]

\* selectableBaseAssets.forEach(...) over the first n base assets: the records it may
\* have built
RECURSIVE SelectableQuoteDenoms(_, _, _, _)
SelectableQuoteDenoms(n, selectableBaseAssets, orderbooks, selectableAssets) ==
  IF n = 0 THEN {[k \in {} |-> <<>>]}
  ELSE {Assign(quoteDenoms, selectableBaseAssets[n].coinDenom, quotes) :
          quoteDenoms \in SelectableQuoteDenoms(n - 1, selectableBaseAssets,
                                                orderbooks, selectableAssets),
          quotes \in SortOutcomes(QuoteAssetsOf(selectableBaseAssets[n], orderbooks,
                                                selectableAssets))}

\* what a render of useOrderbookSelectableDenoms may return
useOrderbookSelectableDenoms(getPools, selectableAssetPages) ==
  LET books == useOrderbooks(getPools)
      selectableBaseDenoms == SelectableBaseDenoms(books.orderbooks)
      selectableAssets == SelectableAssets(selectableAssetPages)
      selectableBaseAssets == SelectableBaseAssets(selectableBaseDenoms, selectableAssets)
  IN {[selectableBaseDenoms |-> selectableBaseDenoms,
       selectableQuoteDenoms |-> quoteDenoms,
       selectableBaseAssets |-> selectableBaseAssets,
       isLoading |-> books.isLoading] :
        quoteDenoms \in SelectableQuoteDenoms(Len(selectableBaseAssets), selectableBaseAssets,
                                              books.orderbooks, selectableAssets)}

DenomsIdle ==
  /\ userAssetPages = Undefined
  /\ selectableDenoms \in useOrderbookSelectableDenoms(pools, userAssetPages)
  /\ selectableDenomsRead = [getPools |-> pools, selectableAssetPages |-> userAssetPages]

-----------------------------------------------------------------------------
(* The environment of the hooks: flags, wallet, props and the query library *)

\* before anything has loaded: the flags' defaults, no wallet, every query idle
HooksIdle ==
  /\ sqsActiveOrders = FALSE
  /\ userAddress = ""
  /\ disabled = FALSE
  /\ pools = PoolsLoading
  /\ sqsOrders = QueriesIdle
  /\ nodeOrders = QueriesIdle
  /\ sqsClaimable = QueriesIdle
  /\ nodeClaimable = QueriesIdle
  /\ refetchOrders = useOrderbookOrders.refetch
  /\ fetchNextPage = useOrderbookOrders.fetchNextPage
  /\ fetchNextPageCalls = 0
  /\ refetchLog = <<>>
  /\ account = Undefined
  /\ walletTxs = 0
  /\ orderbookClaimableOrders = useOrderbookClaimableOrders
  /\ claimCall = Undefined
  /\ OrderbookIdle
  /\ DenomsIdle

StringsIdle ==
  /\ strFn = "none"
  /\ strIn = <<>>
  /\ strMax = 0
  /\ strOut = <<>>
  /\ strCalls = 0

\* the pages the order queries deliver: a first page with a next cursor, a last one
OrdersPage1 == [items |-> <<Order("c1", 10, 1)>>, nextCursor |-> [tag |-> "number", val |-> 1]]
OrdersPage2 == [items |-> <<Order("c2", 20, 2)>>, nextCursor |-> Undefined]

\* the feature flags arrive, or change
FeatureFlagsChanged ==
  /\ sqsActiveOrders' = ~sqsActiveOrders
  /\ UNCHANGED <<userAddress, disabled, pools, queryVars, ordersVars>>
  /\ HooksOnly

\* the wallet connects or disconnects
UserAddressChanged ==
  /\ \E a \in UserAddresses \ {userAddress} : userAddress' = a
  /\ UNCHANGED <<sqsActiveOrders, disabled, pools, queryVars, ordersVars>>
  /\ HooksOnly

\* the caller renders the claimable-order hook with another disabled
DisabledChanged ==
  /\ disabled' = ~disabled
  /\ UNCHANGED <<sqsActiveOrders, userAddress, pools, queryVars, ordersVars>>
  /\ HooksOnly

\* getPools settles
PoolsSettled ==
  /\ pools = PoolsLoading
  /\ \E r \in {PoolsSuccess(<<>>), PoolsSuccess(<<OsmoUsdc>>),
               PoolsSuccess(<<OsmoUsdc, IonUsdc>>), PoolsError} : pools' = r
  /\ UNCHANGED <<sqsActiveOrders, userAddress, disabled, queryVars, ordersVars>>
  /\ HooksOnly

\* the library starts a fetch of an enabled query (on mount, or each refetchInterval)
StartFetch(q) == [q EXCEPT !.fetch = "fetching"]

\* fetchNextPage() of the library: it asks for the first page when the query holds
\* none, and for the page after the last one otherwise; a fetch in flight is cancelled
\* for it when the query holds data, and is left to run when it holds none
StartFetchNextPage(q) ==
  IF q.data = Undefined /\ q.fetch # "idle" THEN q
  ELSE [q EXCEPT !.fetch = "fetchingNextPage"]

\* a request settles: a fetch without data delivers the first page, a refetch the pages
\* held, fetchNextPage one more page when the last page names one
SettleInfinite(q) ==
  [data |-> IF q.data = Undefined THEN InfiniteData(<<OrdersPage1>>)
            ELSE IF q.fetch = "fetchingNextPage" /\ HasNextPage(q)
                 THEN InfiniteData(Append(q.data.pages, OrdersPage2))
                 ELSE q.data,
   fetch |-> "idle"]

SQSOrdersFetch ==
  /\ SQSOrdersEnabled(sqsActiveOrders, userAddress, Addresses(pools))
  /\ sqsOrders[userAddress].fetch = "idle"
  /\ sqsOrders' = [sqsOrders EXCEPT ![userAddress] = StartFetch(@)]
  /\ UNCHANGED <<envVars, nodeOrders, sqsClaimable, nodeClaimable, ordersVars>>
  /\ HooksOnly

SQSOrdersSettle ==
  /\ \E a \in UserAddresses :
       /\ sqsOrders[a].fetch # "idle"
       /\ sqsOrders' = [sqsOrders EXCEPT ![a] = SettleInfinite(@)]
  /\ UNCHANGED <<envVars, nodeOrders, sqsClaimable, nodeClaimable, ordersVars>>
  /\ HooksOnly

NodeOrdersFetch ==
  /\ NodeOrdersEnabled(sqsActiveOrders, userAddress, Addresses(pools))
  /\ nodeOrders[userAddress].fetch = "idle"
  /\ nodeOrders' = [nodeOrders EXCEPT ![userAddress] = StartFetch(@)]
  /\ UNCHANGED <<envVars, sqsOrders, sqsClaimable, nodeClaimable, ordersVars>>
  /\ HooksOnly

NodeOrdersSettle ==
  /\ \E a \in UserAddresses :
       /\ nodeOrders[a].fetch # "idle"
       /\ nodeOrders' = [nodeOrders EXCEPT ![a] = SettleInfinite(@)]
  /\ UNCHANGED <<envVars, sqsOrders, sqsClaimable, nodeClaimable, ordersVars>>
  /\ HooksOnly

\* the component renders: the caller gets this render's fetchNextPage, and
\* useCallback makes a refetchOrders that holds this render's refetch and isRefetching
RenderOrderbookOrders ==
  /\ refetchOrders' = useOrderbookOrders.refetch
  /\ fetchNextPage' = useOrderbookOrders.fetchNextPage
  /\ UNCHANGED <<envVars, queryVars, fetchNextPageCalls, refetchLog>>
  /\ HooksOnly

\* the caller calls the fetchNextPage of the latest render: the hook passes the
\* library's function on as it is, so the call reaches the library in every state
FetchNextPage ==
  LET name == fetchNextPage[1]
  IN /\ fetchNextPageCalls < MaxFetchNextPageCalls
     /\ fetchNextPageCalls' = fetchNextPageCalls + 1
     /\ IF name[1] = "getAllOrdersSQS"
        THEN /\ sqsOrders' = [sqsOrders EXCEPT ![name[2]] = StartFetchNextPage(@)]
             /\ UNCHANGED nodeOrders
        ELSE /\ nodeOrders' = [nodeOrders EXCEPT ![name[2]] = StartFetchNextPage(@)]
             /\ UNCHANGED sqsOrders
     /\ UNCHANGED <<envVars, sqsClaimable, nodeClaimable, refetchOrders, fetchNextPage,
                    refetchLog>>
     /\ HooksOnly

\* the claimable-order queries deliver these
ClaimablePages == <<[items |-> <<Order("c1", 10, 1)>>, nextCursor |-> Undefined]>>
ClaimableList == <<Order("c1", 10, 1), Order("c2", 20, 2)>>

SQSClaimableFetch ==
  /\ SQSClaimableEnabled(sqsActiveOrders, userAddress, Addresses(pools), disabled)
  /\ sqsClaimable[userAddress].fetch = "idle"
  /\ sqsClaimable' = [sqsClaimable EXCEPT ![userAddress] = StartFetch(@)]
  /\ UNCHANGED <<envVars, sqsOrders, nodeOrders, nodeClaimable, ordersVars>>
  /\ HooksOnly

SQSClaimableSettle ==
  /\ \E a \in UserAddresses :
       /\ sqsClaimable[a].fetch # "idle"
       /\ sqsClaimable' = [sqsClaimable EXCEPT
                             ![a] = [data |-> InfiniteData(ClaimablePages), fetch |-> "idle"]]
  /\ UNCHANGED <<envVars, sqsOrders, nodeOrders, nodeClaimable, ordersVars>>
  /\ HooksOnly

NodeClaimableFetch ==
  /\ NodeClaimableEnabled(sqsActiveOrders, userAddress, Addresses(pools), disabled)
  /\ nodeClaimable[userAddress].fetch = "idle"
  /\ nodeClaimable' = [nodeClaimable EXCEPT ![userAddress] = StartFetch(@)]
  /\ UNCHANGED <<envVars, sqsOrders, nodeOrders, sqsClaimable, ordersVars>>
  /\ HooksOnly

NodeClaimableSettle ==
  /\ \E a \in UserAddresses :
       /\ nodeClaimable[a].fetch # "idle"
       /\ nodeClaimable' = [nodeClaimable EXCEPT
                              ![a] = [data |-> Array(ClaimableList), fetch |-> "idle"]]
  /\ UNCHANGED <<envVars, sqsOrders, nodeOrders, sqsClaimable, ordersVars>>
  /\ HooksOnly

QueriesInit ==
  /\ StringsIdle
  /\ HooksIdle

QueriesNext ==
  \/ FeatureFlagsChanged
  \/ UserAddressChanged
  \/ DisabledChanged
  \/ PoolsSettled
  \/ SQSOrdersFetch
  \/ SQSOrdersSettle
  \/ NodeOrdersFetch
  \/ NodeOrdersSettle
  \/ RenderOrderbookOrders
  \/ FetchNextPage
  \/ SQSClaimableFetch
  \/ SQSClaimableSettle
  \/ NodeClaimableFetch
  \/ NodeClaimableSettle

SpecQueries == QueriesInit /\ [][QueriesNext]_vars

-----------------------------------------------------------------------------
(* Claims about useOrdersQuery and useClaimableOrdersQuery, under SpecQueries *)

\* the results of the four queries for the user address of the render
SQSOrdersResult ==
  InfiniteQueryResult(<<"getAllOrdersSQS", userAddress>>, sqsOrders[userAddress])
NodeOrdersResult ==
  InfiniteQueryResult(<<"getAllOrders", userAddress>>, nodeOrders[userAddress])
SQSClaimableResult ==
  InfiniteQueryResult(<<"getAllOrdersSQS.filled", userAddress>>, sqsClaimable[userAddress])
NodeClaimableResult == QueryResult(nodeClaimable[userAddress])

OrdersFields ==
  {"data", "isLoading", "fetchNextPage", "isFetching", "isFetchingNextPage",
   "hasNextPage", "refetch", "isRefetching"}

\* of the two queries of each hook at most one is enabled, SQS exactly when the flag
\* is set, and none without a user address, without orderbooks or when disabled
C1_Enablement ==
  LET addresses == Addresses(pools)
      sqsO == SQSOrdersEnabled(sqsActiveOrders, userAddress, addresses)
      nodeO == NodeOrdersEnabled(sqsActiveOrders, userAddress, addresses)
      sqsC == SQSClaimableEnabled(sqsActiveOrders, userAddress, addresses, disabled)
      nodeC == NodeClaimableEnabled(sqsActiveOrders, userAddress, addresses, disabled)
  IN /\ ~(sqsO /\ nodeO)
     /\ ~(sqsC /\ nodeC)
     /\ (sqsO \/ nodeO) => (sqsO <=> sqsActiveOrders)
     /\ (sqsC \/ nodeC) => (sqsC <=> sqsActiveOrders)
     /\ (userAddress = "" \/ addresses = <<>>) => ~(sqsO \/ nodeO \/ sqsC \/ nodeC)
     /\ disabled => ~(sqsC \/ nodeC)

\* every field useOrdersQuery returns is that field of the selected backend's result
C1_OrdersFieldsOfSelected ==
  \A f \in OrdersFields :
    /\ sqsActiveOrders => useOrdersQuery[f] = SQSOrdersResult[f]
    /\ ~sqsActiveOrders => useOrdersQuery[f] = NodeOrdersResult[f]

\* C1 (as claimed): at most one of the two backend queries is enabled, the SQS one
\* exactly when sqsActiveOrders is true, neither without a user address or orderbooks
\* (or when disabled); and every returned field of useOrdersQuery and of
\* useClaimableOrdersQuery is the unchanged field of the backend the flag selects.
C1_SelectedBackendUnchanged ==
  /\ C1_Enablement
  /\ C1_OrdersFieldsOfSelected
  /\ sqsActiveOrders =>
       /\ useClaimableOrdersQuery.data = SQSClaimableResult.data
       /\ useClaimableOrdersQuery.isLoading = SQSClaimableResult.isLoading
  /\ ~sqsActiveOrders =>
       /\ useClaimableOrdersQuery.data = NodeClaimableResult.data
       /\ useClaimableOrdersQuery.isLoading = NodeClaimableResult.isLoading

\* C1 (amended): as claimed, except for the data of useClaimableOrdersQuery when the
\* flag selects SQS: it is the array of the items of the SQS pages, page after page,
\* and the empty array while the SQS query has no data. With the node backend
\* selected it is the node query's data unchanged (undefined included).
C1_SelectedBackendClaimableFlattened ==
  /\ C1_Enablement
  /\ C1_OrdersFieldsOfSelected
  /\ sqsActiveOrders =>
       /\ useClaimableOrdersQuery.isLoading = SQSClaimableResult.isLoading
       /\ useClaimableOrdersQuery.data.tag = "array"
       /\ sqsClaimable[userAddress].data = Undefined =>
            useClaimableOrdersQuery.data.items = <<>>
       /\ sqsClaimable[userAddress].data # Undefined =>
            useClaimableOrdersQuery.data.items =
              FlatMapItems(sqsClaimable[userAddress].data.pages)
  /\ ~sqsActiveOrders =>
       /\ useClaimableOrdersQuery.data = NodeClaimableResult.data
       /\ useClaimableOrdersQuery.isLoading = NodeClaimableResult.isLoading

\* C1 witness: SQS is selected and enabled while both backends of both hooks hold
\* data, the order queries different data with the node query refetching.
C1_Witness ==
  /\ sqsActiveOrders
  /\ SQSOrdersEnabled(sqsActiveOrders, userAddress, Addresses(pools))
  /\ SQSOrdersResult.data # Undefined /\ NodeOrdersResult.data # Undefined
  /\ SQSOrdersResult.data # NodeOrdersResult.data
  /\ NodeOrdersResult.isRefetching /\ ~SQSOrdersResult.isRefetching
  /\ SQSClaimableResult.data # Undefined /\ NodeClaimableResult.data # Undefined
  /\ useOrdersQuery.data = SQSOrdersResult.data

-----------------------------------------------------------------------------
(* useOrderbookOrders: the refetchOrders callback *)

\* refetch() of the query library on the query a refetch function belongs to
Refetch(name) ==
  IF name[1] = "getAllOrdersSQS"
  THEN /\ sqsOrders' = [sqsOrders EXCEPT ![name[2]] = StartFetch(@)]
       /\ UNCHANGED nodeOrders
  ELSE /\ nodeOrders' = [nodeOrders EXCEPT ![name[2]] = StartFetch(@)]
       /\ UNCHANGED sqsOrders

\* isRefetching of the query a refetch function belongs to, as it is now
IsRefetchingNow(name) ==
  IF name[1] = "getAllOrdersSQS"
  THEN InfiniteQueryResult(name, sqsOrders[name[2]]).isRefetching
  ELSE InfiniteQueryResult(name, nodeOrders[name[2]]).isRefetching

\* the caller calls the refetchOrders of the latest render
RefetchOrders ==
  /\ Len(refetchLog) < MaxRefetchCalls
  /\ IF refetchOrders.isRefetching
     THEN /\ refetchLog' = Append(refetchLog,
                [isRefetching |-> TRUE, called |-> FALSE, wasRefetching |-> FALSE])
          /\ UNCHANGED <<sqsOrders, nodeOrders>>
     ELSE /\ refetchLog' = Append(refetchLog,
                [isRefetching |-> FALSE, called |-> TRUE,
                 wasRefetching |-> IsRefetchingNow(refetchOrders.refetch[1])])
          /\ Refetch(refetchOrders.refetch[1])
  /\ UNCHANGED <<envVars, sqsClaimable, nodeClaimable, refetchOrders, fetchNextPage,
                 fetchNextPageCalls>>
  /\ HooksOnly

RefetchNext ==
  \/ FeatureFlagsChanged
  \/ UserAddressChanged
  \/ PoolsSettled
  \/ SQSOrdersFetch
  \/ SQSOrdersSettle
  \/ NodeOrdersFetch
  \/ NodeOrdersSettle
  \/ FetchNextPage
  \/ RenderOrderbookOrders
  \/ RefetchOrders

SpecRefetch == QueriesInit /\ [][RefetchNext]_vars

\* C9 (as claimed): refetchOrders never calls the underlying refetch while a refetch
\* of that query is in progress, whatever the sequence of calls (two calls before the
\* next render included), and a call whose isRefetching is true calls nothing.
C9_NoRefetchWhileRefetching ==
  \A i \in 1..Len(refetchLog) :
    /\ refetchLog[i].called => ~refetchLog[i].wasRefetching
    /\ refetchLog[i].isRefetching => ~refetchLog[i].called

-----------------------------------------------------------------------------
(* useOrderbookClaimableOrders: its environment and the claims about it, under
   SpecClaim *)

\* the component renders: useCallback makes a claimAllOrders that holds this
\* render's account, orders and addresses
RenderClaimableOrders ==
  /\ orderbookClaimableOrders' = useOrderbookClaimableOrders
  /\ UNCHANGED <<account, walletTxs, claimCall, envVars, queryVars>>
  /\ ClaimOnly

\* the caller calls the claimAllOrders of the latest render
ClaimAllOrders ==
  /\ walletTxs < MaxWalletTxs
  /\ LET held == orderbookClaimableOrders.claimAllOrders
         sent == claimAllOrders(held.account, held.orders, held.addresses)
     IN /\ walletTxs' = walletTxs + Len(sent)
        /\ claimCall' = [tag |-> "call", account |-> held.account, orders |-> held.orders,
                         addresses |-> held.addresses, sent |-> sent,
                         reported |-> orderbookClaimableOrders.orders,
                         count |-> orderbookClaimableOrders.count,
                         walletTxsBefore |-> walletTxs,
                         walletTxsAfter |-> walletTxs + Len(sent)]
  /\ UNCHANGED <<account, orderbookClaimableOrders, envVars, queryVars>>
  /\ ClaimOnly

\* the wallet connects or disconnects
AccountChanged ==
  /\ account' = IF account = Undefined THEN Wallet ELSE Undefined
  /\ UNCHANGED <<walletTxs, orderbookClaimableOrders, claimCall, envVars, queryVars>>
  /\ ClaimOnly

\* the claimable orders the backends may hold
ClaimOrderUniverse == {Order("c1", 10, 1), Order("c1", 20, 2), Order("c2", 30, 3)}
ClaimOrderLists == SeqsUpTo(ClaimOrderUniverse, MaxOrders)
ClaimPage(items) == [items |-> items, nextCursor |-> Undefined]
ClaimOrderPages ==
  {<<>>}
  \cup {<<ClaimPage(l)>> : l \in ClaimOrderLists}
  \cup {<<ClaimPage(l[1]), ClaimPage(l[2])>> :
          l \in {m \in ClaimOrderLists \X ClaimOrderLists : Len(m[1]) + Len(m[2]) <= MaxOrders}}
ClaimPools ==
  {PoolsLoading, PoolsSuccess(<<>>), PoolsSuccess(<<OsmoUsdc>>),
   PoolsSuccess(<<IonUsdc, OsmoUsdc>>)}

\* the two claimable-order queries of the user: one of them with any of the data, the
\* other without data or with the list it delivers
ClaimQueries ==
  LET sqs == {QueryIdle} \cup
               {[data |-> InfiniteData(p), fetch |-> "idle"] : p \in ClaimOrderPages}
      node == {QueryIdle} \cup
                {[data |-> Array(l), fetch |-> "idle"] : l \in ClaimOrderLists}
  IN (sqs \X {QueryIdle, [data |-> Array(ClaimableList), fetch |-> "idle"]})
     \cup ({QueryIdle, [data |-> InfiniteData(ClaimablePages), fetch |-> "idle"]} \X node)

ClaimInit ==
  /\ StringsIdle
  /\ sqsActiveOrders \in BOOLEAN
  /\ userAddress = "osmo1"
  /\ disabled = FALSE
  /\ pools \in ClaimPools
  /\ sqsOrders = QueriesIdle
  /\ nodeOrders = QueriesIdle
  /\ \E q \in ClaimQueries :
       /\ sqsClaimable = [QueriesIdle EXCEPT ![userAddress] = q[1]]
       /\ nodeClaimable = [QueriesIdle EXCEPT ![userAddress] = q[2]]
  /\ refetchOrders = useOrderbookOrders.refetch
  /\ fetchNextPage = useOrderbookOrders.fetchNextPage
  /\ fetchNextPageCalls = 0
  /\ refetchLog = <<>>
  /\ account \in {Undefined, Wallet}
  /\ walletTxs = 0
  /\ orderbookClaimableOrders = useOrderbookClaimableOrders
  /\ claimCall = Undefined
  /\ OrderbookIdle
  /\ DenomsIdle

\* in SpecClaim the flags change with the claim variables left alone
ClaimFeatureFlagsChanged ==
  /\ sqsActiveOrders' = ~sqsActiveOrders
  /\ UNCHANGED <<userAddress, disabled, pools, queryVars, claimVars>>
  /\ ClaimOnly

ClaimNext ==
  \/ RenderClaimableOrders
  \/ ClaimAllOrders
  \/ AccountChanged
  \/ ClaimFeatureFlagsChanged

SpecClaim == ClaimInit /\ [][ClaimNext]_vars

\* the [tick_id, order_id] pairs of the orders on one contract, in the list's order
RECURSIVE PairsOn(_, _)
PairsOn(contractAddress, orders) ==
  IF orders = <<>> THEN <<>>
  ELSE IF Head(orders).orderbookAddress = contractAddress
       THEN <<<<Head(orders).tick_id, Head(orders).order_id>>>>
            \o PairsOn(contractAddress, Tail(orders))
       ELSE PairsOn(contractAddress, Tail(orders))

SeqRange(xs) == {xs[i] : i \in 1..Len(xs)}

\* C2: when claimAllOrders submits, the batch holds, for each known orderbook address
\* with a claimable order, a message to that contract with empty funds whose
\* batch_claim.orders are exactly the [tick_id, order_id] pairs of the claimable
\* orders of that orderbook, in list order; no message has an empty orders list and
\* none carries an order of another orderbook.
C2_BatchClaimsPerOrderbook ==
  (claimCall # Undefined /\ claimCall.sent # <<>>) =>
    LET batch == claimCall.sent[1]
        orders == claimCall.orders.items
    IN /\ \A a \in SeqRange(claimCall.addresses) :
            (\E o \in SeqRange(orders) : o.orderbookAddress = a) =>
              \E m \in SeqRange(batch) :
                /\ m.contractAddress = a
                /\ m.funds = <<>>
                /\ m.msg.batch_claim.orders = PairsOn(a, orders)
       /\ \A m \in SeqRange(batch) :
            /\ m.msg.batch_claim.orders # <<>>
            /\ m.msg.batch_claim.orders = PairsOn(m.contractAddress, orders)
            /\ m.contractAddress \in SeqRange(claimCall.addresses)

\* C2 witness: a batch of two messages, in the order of the addresses, sent for a
\* list that holds the orders the other way round.
C2_Witness ==
  /\ claimCall # Undefined /\ claimCall.sent # <<>>
  /\ claimCall.addresses = <<"c2", "c1">>
  /\ claimCall.orders.items = <<Order("c1", 10, 1), Order("c2", 30, 3)>>
  /\ Len(claimCall.sent[1]) = 2
  /\ claimCall.sent[1][1].contractAddress = "c2"
  /\ claimCall.sent[1][1].msg.batch_claim.orders = <<<<30, 3>>>>
  /\ claimCall.sent[1][2].msg.batch_claim.orders = <<<<10, 1>>>>

\* C10: a call of claimAllOrders calls sendMultiExecuteContractMsg at most once, and
\* not at all (the wallet is left as it was) without a connected account, with the
\* claimable orders undefined, or with no claimable order on a known orderbook; it
\* never submits an empty batch.
C10_AtMostOneNonEmptyBatch ==
  claimCall # Undefined =>
    /\ Len(claimCall.sent) <= 1
    /\ claimCall.walletTxsAfter = claimCall.walletTxsBefore + Len(claimCall.sent)
    /\ walletTxs = claimCall.walletTxsAfter
    /\ ( \/ claimCall.account = Undefined
         \/ claimCall.orders = Undefined
         \/ ~\E o \in SeqRange(claimCall.orders.items) :
               o.orderbookAddress \in SeqRange(claimCall.addresses) )
         => (claimCall.sent = <<>> /\ claimCall.walletTxsAfter = claimCall.walletTxsBefore)
    /\ \A i \in 1..Len(claimCall.sent) : claimCall.sent[i] # <<>>

\* C10 witness: a call with a connected account and claimable orders, none of them on
\* a known orderbook, that sent nothing after an earlier call that did send.
C10_Witness ==
  /\ claimCall # Undefined
  /\ claimCall.account # Undefined
  /\ claimCall.orders # Undefined
  /\ claimCall.orders.items # <<>>
  /\ claimCall.addresses # <<>>
  /\ claimCall.sent = <<>>
  /\ claimCall.walletTxsBefore = 1
  /\ walletTxs = 1

\* the batch_claim messages of a batch that hold the order: sent to its orderbook and
\* listing its [tick_id, order_id] pair
MessagesClaiming(o, batch) ==
  {i \in 1..Len(batch) :
     /\ batch[i].contractAddress = o.orderbookAddress
     /\ <<o.tick_id, o.order_id>> \in SeqRange(batch[i].msg.batch_claim.orders)}

\* how many times the batch claims the order
TimesClaimed(o, batch) ==
  Cardinality({p \in {<<i, k>> : i \in 1..Len(batch), k \in 1..(MaxOrders + 1)} :
                 /\ batch[p[1]].contractAddress = o.orderbookAddress
                 /\ p[2] <= Len(batch[p[1]].msg.batch_claim.orders)
                 /\ batch[p[1]].msg.batch_claim.orders[p[2]] = <<o.tick_id, o.order_id>>})

\* how many times the list reports the order
TimesReported(o, orders) == Cardinality({i \in 1..Len(orders) : orders[i] = o})

\* C11: when claimAllOrders is called with a connected account, every order that
\* useOrderbookClaimableOrders reports is included in exactly one batch_claim message
\* of the batch submitted by the call (none is left out), and no order is claimed more
\* often than it is reported, whatever the orderbook list and the claimable orders.
C11_EveryReportedOrderClaimedOnce ==
  (claimCall # Undefined /\ claimCall.account # Undefined) =>
    LET reported == claimCall.reported
        batch == IF claimCall.sent = <<>> THEN <<>> ELSE claimCall.sent[1]
    IN \A o \in SeqRange(reported) :
         /\ claimCall.count = Len(reported)
         /\ Cardinality(MessagesClaiming(o, batch)) = 1
         /\ TimesClaimed(o, batch) <= TimesReported(o, reported)

-----------------------------------------------------------------------------
(* useOrderbook: its environment and the claims about it, under SpecOrderbook *)

\* getPools settles, for useOrderbook
OrderbookPoolsSettled ==
  /\ pools = PoolsLoading
  /\ \E r \in {PoolsSuccess(l) : l \in OrderbookLists} \cup {PoolsError} : pools' = r
  /\ UNCHANGED <<sqsActiveOrders, userAddress, disabled, orderbookVars>>
  /\ OrderbookOnly

\* the caller renders useOrderbook with another pair of denoms
SelectPair ==
  /\ \E base \in {Undefined, Osmo, Ion}, quote \in {Undefined, Usdc} :
       /\ <<base, quote>> # <<baseAsset, quoteAsset>>
       /\ baseAsset' = base
       /\ quoteAsset' = quote
  /\ UNCHANGED <<envVars, makerFeeQueries, makerFeeRequests>>
  /\ OrderbookOnly

\* the library requests the maker fee of the orderbook of the current render, if the
\* query is enabled and has no request in flight
MakerFeeRequested ==
  LET osmoAddress == useOrderbook.contractAddress
  IN /\ MakerFeeEnabled(osmoAddress)
     /\ makerFeeQueries[osmoAddress].fetch = "idle"
     /\ makerFeeQueries' = [makerFeeQueries EXCEPT ![osmoAddress].fetch = "fetching"]
     /\ makerFeeRequests' = makerFeeRequests \cup
          {[osmoAddress |-> osmoAddress, matched |-> useOrderbook.orderbook # Undefined]}
     /\ UNCHANGED <<envVars, baseAsset, quoteAsset>>
     /\ OrderbookOnly

\* a getMakerFee request settles, whatever the pair of the current render
MakerFeeSettled ==
  /\ \E osmoAddress \in MakerFeeAddresses, r \in MakerFeeOutcomes :
       /\ makerFeeQueries[osmoAddress].fetch = "fetching"
       /\ makerFeeQueries' = [makerFeeQueries EXCEPT ![osmoAddress] = r]
  /\ UNCHANGED <<envVars, baseAsset, quoteAsset, makerFeeRequests>>
  /\ OrderbookOnly

OrderbookInit ==
  /\ StringsIdle
  /\ HooksIdle

OrderbookNext ==
  \/ OrderbookPoolsSettled
  \/ SelectPair
  \/ MakerFeeRequested
  \/ MakerFeeSettled

SpecOrderbook == OrderbookInit /\ [][OrderbookNext]_vars

\* the orderbook of the pair, found without orderbooks.find: the one at the least
\* index whose denoms are the pair's
MatchedAt(i) ==
  LET orderbooks == IF pools.data = Undefined THEN <<>> ELSE pools.data.items
  IN /\ i \in 1..Len(orderbooks)
     /\ MatchesPair(orderbooks[i], baseAsset, quoteAsset)
     /\ \A j \in 1..(i - 1) : ~MatchesPair(orderbooks[j], baseAsset, quoteAsset)

NoOrderbookForPair ==
  LET orderbooks == IF pools.data = Undefined THEN <<>> ELSE pools.data.items
  IN \A i \in 1..Len(orderbooks) :
       MatchedAt(i) => ("poolId" \notin DOMAIN orderbooks[i] \/ orderbooks[i].poolId = "")

\* C3: useOrderbook's error is "errors.noOrderbook" exactly when the orderbook list
\* has finished loading and either no orderbook matches the pair or the matched one
\* has a missing or empty poolId, whatever the maker-fee query says; otherwise (also
\* while the list is loading) it is the maker-fee query's error message if there is
\* one, and undefined if not.
C3_NoOrderbookError ==
  LET r == useOrderbook
      noOrderbook == ~pools.isLoading /\ NoOrderbookForPair
      makerFeeError == makerFeeQueries[r.contractAddress].error
  IN /\ (r.error = String("errors.noOrderbook")) <=> noOrderbook
     /\ ~noOrderbook =>
          /\ makerFeeError # Null => r.error = String(makerFeeError.message)
          /\ makerFeeError = Null => r.error = Undefined

\* C3 witness: the list has loaded, the matched orderbook has an empty poolId and its
\* maker-fee query has failed: the error is "errors.noOrderbook".
C3_Witness ==
  /\ ~pools.isLoading
  /\ useOrderbook.orderbook = OsmoUsdcBySymbol
  /\ makerFeeQueries["c3"].error # Null
  /\ useOrderbook.error = String("errors.noOrderbook")

\* C3 witness of the other branch: a matched orderbook with a pool id whose
\* maker-fee query has failed.
C3_WitnessMakerFeeError ==
  /\ useOrderbook.orderbook = OsmoUsdc
  /\ useOrderbook.error = String("Failed to fetch")

\* C8: the maker fee is Dec(0) while the maker-fee query is loading, and once loaded
\* the fetched maker fee if the data has one and Dec(0) if not; the query is enabled
\* only for a non-empty orderbook address, so no maker-fee request is issued when no
\* orderbook was matched.
C8_MakerFee ==
  LET r == useOrderbook
      q == makerFeeQueries[r.contractAddress]
  IN /\ q.isLoading => r.makerFee = Dec(0)
     /\ (~q.isLoading /\ q.data # Undefined /\ "makerFee" \in DOMAIN q.data)
          => r.makerFee = q.data.makerFee
     /\ (~q.isLoading /\ (q.data = Undefined \/ "makerFee" \notin DOMAIN q.data))
          => r.makerFee = Dec(0)
     /\ MakerFeeEnabled(r.contractAddress) => r.contractAddress # ""
     /\ r.orderbook = Undefined => ~MakerFeeEnabled(r.contractAddress)
     /\ \A req \in makerFeeRequests : req.osmoAddress # "" /\ req.matched
     /\ makerFeeQueries[""] = MakerFeeLoading

\* C8 witness: the maker fee of a matched orderbook has been fetched and is returned,
\* after another pair's orderbook was fetched too.
C8_Witness ==
  /\ useOrderbook.orderbook = OsmoUsdc
  /\ ~useOrderbook.isMakerFeeLoading
  /\ useOrderbook.makerFee = Dec(2)
  /\ Cardinality(makerFeeRequests) = 2

-----------------------------------------------------------------------------
(* useOrderbookSelectableDenoms: its environment and the claim about it, under
   SpecDenoms *)

\* the orderbooks getPools may deliver: pairs of known assets, among them the two
\* assets with the symbol OSMO, and pairs with a denom that neither the user's assets
\* nor the asset list know
DenomOrderbook(baseDenom, quoteDenom) == Orderbook("c1", baseDenom, quoteDenom, "7")
DenomOrderbookUniverse ==
  {DenomOrderbook("uosmo", "ibc/usdc"), DenomOrderbook("uosmo", "uion"),
   DenomOrderbook("uion", "ibc/usdc"), DenomOrderbook("uion", "uosmo"),
   DenomOrderbook("ibc/unknown", "ibc/usdc"), DenomOrderbook("uosmo", "ibc/unknown"),
   DenomOrderbook("ibc/osmo", "uion")}
DenomOrderbookLists == SeqsUpTo(DenomOrderbookUniverse, MaxOrderbooks)

\* the user's assets: each of OSMO, ION and USDC absent or held with a balance, the
\* first on one page and the others on the next
Balances == {0, 1, 2}
UserAssetLists ==
  {Flatten(<<IF o = 0 THEN <<>> ELSE <<UserAsset(Osmo, o)>>,
             IF i = 0 THEN <<>> ELSE <<UserAsset(Ion, i)>>,
             IF u = 0 THEN <<>> ELSE <<UserAsset(Usdc, u)>>>>) :
     o \in Balances, i \in Balances, u \in Balances}
AssetPage(items) == [items |-> items, nextCursor |-> Undefined]
UserAssetPages(assets) ==
  IF Len(assets) <= 1 THEN InfiniteData(<<AssetPage(assets)>>)
  ELSE InfiniteData(<<AssetPage(<<Head(assets)>>), AssetPage(Tail(assets))>>)

\* getPools settles
DenomsPoolsSettled ==
  /\ pools = PoolsLoading
  /\ \E r \in {PoolsSuccess(l) : l \in DenomOrderbookLists} \cup {PoolsError} : pools' = r
  /\ UNCHANGED <<sqsActiveOrders, userAddress, disabled, denomVars>>
  /\ DenomsOnly

\* getUserAssets delivers the user's assets
UserAssetsSettled ==
  /\ userAssetPages = Undefined
  /\ \E assets \in UserAssetLists : userAssetPages' = UserAssetPages(assets)
  /\ UNCHANGED <<envVars, selectableDenoms, selectableDenomsRead>>
  /\ DenomsOnly

\* the component renders with the query results as they are now
RenderSelectableDenoms ==
  /\ selectableDenomsRead # [getPools |-> pools, selectableAssetPages |-> userAssetPages]
  /\ selectableDenoms' \in useOrderbookSelectableDenoms(pools, userAssetPages)
  /\ selectableDenomsRead' = [getPools |-> pools, selectableAssetPages |-> userAssetPages]
  /\ UNCHANGED <<envVars, userAssetPages>>
  /\ DenomsOnly

DenomsInit ==
  /\ StringsIdle
  /\ HooksIdle

DenomsNext ==
  \/ DenomsPoolsSettled
  \/ UserAssetsSettled
  \/ RenderSelectableDenoms

SpecDenoms == DenomsInit /\ [][DenomsNext]_vars

\* xs and ys hold the same elements the same number of times
IsPermutation(xs, ys) ==
  /\ Len(xs) = Len(ys)
  /\ \E p \in IndexPermutations(Len(xs)) : \A i \in 1..Len(xs) : xs[i] = ys[p[i]]

\* the resolvable quote assets of the orderbooks of one base denom, in list order
RECURSIVE ResolvableQuotes(_, _, _)
ResolvableQuotes(baseDenom, orderbooks, assets) ==
  IF orderbooks = <<>> THEN <<>>
  ELSE LET rest == ResolvableQuotes(baseDenom, Tail(orderbooks), assets)
           quote == QuoteAssetOf(Head(orderbooks), assets)
       IN IF Head(orderbooks).baseDenom = baseDenom /\ quote # Undefined
          THEN <<quote>> \o rest
          ELSE rest

\* C7 (as claimed): in what a render returns, with the orderbook list and the user's
\* assets as the render read them, selectableBaseDenoms holds each baseDenom of the
\* orderbook list exactly once and nothing else; for every selectable base asset the
\* quote assets listed for it (under its coinDenom, the key of selectableQuoteDenoms)
\* are exactly the resolvable quote assets of the orderbooks whose baseDenom is that
\* asset's coinMinimalDenom, so no quote asset is listed under a base asset it has no
\* orderbook with.
C7_FilterByMatchingDenom ==
  LET r == selectableDenoms
      orderbooks == useOrderbooks(selectableDenomsRead.getPools).orderbooks
      assets == SelectableAssets(selectableDenomsRead.selectableAssetPages)
  IN /\ \A i, j \in 1..Len(r.selectableBaseDenoms) :
          r.selectableBaseDenoms[i] = r.selectableBaseDenoms[j] => i = j
     /\ SeqRange(r.selectableBaseDenoms) = {o.baseDenom : o \in SeqRange(orderbooks)}
     /\ \A b \in SeqRange(r.selectableBaseAssets) :
          /\ b.coinDenom \in DOMAIN r.selectableQuoteDenoms
          /\ IsPermutation(r.selectableQuoteDenoms[b.coinDenom],
                           ResolvableQuotes(b.coinMinimalDenom, orderbooks, assets))
          /\ \A q \in SeqRange(r.selectableQuoteDenoms[b.coinDenom]) :
               \E o \in SeqRange(orderbooks) :
                 o.baseDenom = b.coinMinimalDenom /\ o.quoteDenom = q.coinMinimalDenom

-----------------------------------------------------------------------------
(* The inputs the helpers are applied to *)

\* space, tab, ideographic space (U+3000), "a", "b"
EllipsisAlphabet == {32, 9, 12288, 97, 98}
\* "a", "B", "-", "_", ".", U+00C9 (E acute), U+0181 (B with hook), U+03A3 (capital sigma)
CaseAlphabet == {97, 66, Hyphen, Underscore, Dot, 201, 385, 931}
UrlTokens == {HttpScheme, HttpsScheme, Www, <<Slash>>, <<97>>}

EllipsisInputs == SeqsUpTo(EllipsisAlphabet, MaxStrLen)
CaseInputs == SeqsUpTo(CaseAlphabet, MaxStrLen)
UrlInputs == {Flatten(ts) : ts \in SeqsUpTo(UrlTokens, MaxTokens)}
MaxLengths == 0..(MaxStrLen + 1)

StrInit ==
  /\ HooksIdle
  /\ strCalls = 0
  /\ strOut = <<>>
  /\ \/ strFn = "ellipsisText" /\ strIn \in EllipsisInputs /\ strMax \in MaxLengths
     \/ strFn = "camelCaseToSnakeCase" /\ strIn \in CaseInputs /\ strMax = 0
     \/ strFn = "camelToKebabCase" /\ strIn \in CaseInputs /\ strMax = 0
     \/ strFn = "normalizeUrl" /\ strIn \in UrlInputs /\ strMax = 0

\* The helper is applied to the input, and then once more to its own result.
Arg == IF strCalls = 0 THEN strIn ELSE strOut

EllipsisText ==
  /\ strFn = "ellipsisText" /\ strCalls < 2
  /\ strIn' = Arg
  /\ strOut' = ellipsisText(Arg, strMax)
  /\ strCalls' = strCalls + 1
  /\ UNCHANGED <<strFn, strMax>>
  /\ StrOnly

CamelCaseToSnakeCase ==
  /\ strFn = "camelCaseToSnakeCase" /\ strCalls < 2
  /\ strIn' = Arg
  /\ strOut' = camelCaseToSnakeCase(Arg)
  /\ strCalls' = strCalls + 1
  /\ UNCHANGED <<strFn, strMax>>
  /\ StrOnly

CamelToKebabCase ==
  /\ strFn = "camelToKebabCase" /\ strCalls < 2
  /\ strIn' = Arg
  /\ strOut' = camelToKebabCase(Arg)
  /\ strCalls' = strCalls + 1
  /\ UNCHANGED <<strFn, strMax>>
  /\ StrOnly

NormalizeUrl ==
  /\ strFn = "normalizeUrl" /\ strCalls < 2
  /\ strIn' = Arg
  /\ strOut' = normalizeUrl(Arg)
  /\ strCalls' = strCalls + 1
  /\ UNCHANGED <<strFn, strMax>>
  /\ StrOnly

StrNext ==
  \/ EllipsisText
  \/ CamelCaseToSnakeCase
  \/ CamelToKebabCase
  \/ NormalizeUrl

SpecStr == StrInit /\ [][StrNext]_vars

-----------------------------------------------------------------------------
(* Claims about the string helpers, under SpecStr *)

\* C4 (as claimed): for every str and maxLength, ellipsisText(str, maxLength) is at
\* most maxLength long; a shortened result ends with "..."; and when str is no
\* longer than maxLength the result is str trimmed, with no delimiter added.
C4_EllipsisTextBounded ==
  (strFn = "ellipsisText" /\ strCalls = 1) =>
    /\ Len(strOut) <= strMax
    /\ (strOut # trim(strIn) => IsSuffix(Delimiter, strOut))
    /\ (Len(strIn) <= strMax => strOut = trim(strIn))

\* C5 (as claimed): for every s, camelCaseToSnakeCase(camelCaseToSnakeCase(s)) =
\* camelCaseToSnakeCase(s) and camelToKebabCase(camelToKebabCase(s)) =
\* camelToKebabCase(s).
C5_CaseConversionStable ==
  (strFn \in {"camelCaseToSnakeCase", "camelToKebabCase"} /\ strCalls = 2) =>
    strOut = strIn

\* C5 (amended): camelCaseToSnakeCase is stable on its own result for every s;
\* camelToKebabCase(s) begins with a hyphen exactly when s begins with a hyphen that
\* is followed by another hyphen or by a letter of [A-Z]; camelToKebabCase is stable
\* on its own result exactly when that result does not begin with a hyphen, and
\* otherwise the second application removes the hyphen.
C5_CaseConversionStableUnlessLeadingHyphen ==
  /\ (strFn = "camelCaseToSnakeCase" /\ strCalls = 2) => strOut = strIn
  /\ (strFn = "camelToKebabCase" /\ strCalls = 1) =>
        ((strOut # <<>> /\ Head(strOut) = Hyphen)
           <=> (/\ Len(strIn) >= 2
                /\ strIn[1] = Hyphen
                /\ (strIn[2] = Hyphen \/ IsUpper(strIn[2]))))
  /\ (strFn = "camelToKebabCase" /\ strCalls = 2) =>
        /\ (strOut = strIn) <=> ~(strIn # <<>> /\ Head(strIn) = Hyphen)
        /\ (strIn # <<>> /\ Head(strIn) = Hyphen) => strOut = Tail(strIn)

\* C5 witness: a converted camel-case name ("a-b", from "aB") converted once more.
C5_Witness ==
  /\ strFn = "camelToKebabCase" /\ strCalls = 2
  /\ strIn = <<97, Hyphen, 98>>
  /\ strOut = strIn

\* C6 (as claimed): for every url, normalizeUrl(url) does not start with "http://",
\* "https://" or "www.", does not end with "/", and normalizeUrl of it is itself.
C6_NormalizeUrlIsNormal ==
  /\ (strFn = "normalizeUrl" /\ strCalls = 1) =>
        /\ ~IsPrefix(HttpScheme, strOut)
        /\ ~IsPrefix(HttpsScheme, strOut)
        /\ ~IsPrefix(Www, strOut)
        /\ ~IsSuffix(<<Slash>>, strOut)
  /\ (strFn = "normalizeUrl" /\ strCalls = 2) => strOut = strIn

====
